---- MODULE Spec2Model ----
(***************************************************************************)
(* gomon: process supervision and restart coordination.                    *)
(*                                                                         *)
(* The repository holds several revisions of the supervisor.  Two of them  *)
(* are modelled here, each under its own specifications:                   *)
(*                                                                         *)
(*   Spec, FairSpec, LoopSpec, FairInTimeSpec                              *)
(*       internal/process/process.go: the supervisor with the recursive    *)
(*       crash handler (startChild), HardRestart, Close, the "expecting    *)
(*       shutdown" flag and the doubling backoff.  FairInTimeSpec is the   *)
(*       supervisor before any kill timeout has elapsed.                   *)
(*                                                                         *)
(*   SoftSpec                                                              *)
(*       SoftRestart of process.go with its IPC server, fed by the         *)
(*       watcher's processFileChange, and SendSoftRestart of the notifier. *)
(*                                                                         *)
(*   CtxSpec, FairCtxSpec                                                  *)
(*       Start(ctx, ...) of the later childProcess, Stop() of              *)
(*       internal/process/process_posix.go, and the loop of main.go that   *)
(*       runs Start under backoff.Retry.                                   *)
(*                                                                         *)
(* Durations are in milliseconds.                                          *)
(***************************************************************************)
EXTENDS Integers, FiniteSets, Sequences, TLC

\* ---------------------------------------------------------------- bounds
\* HardRestart calls, Close calls, unexpected exits and failed start steps
\* the environment may make in one behaviour of Spec.
MaxHardRestarts == 2
MaxCloses == 1
MaxCrashes == 2
MaxStartFailures == 1
\* Environment events (of the four kinds above) in one behaviour of Spec.
MaxEvents == 3
\* Unexpected exits in a row in the behaviours of LoopSpec (no explicit restart).
MaxCrashLoop == 19

\* childProcess objects the loop of main creates in one behaviour of CtxSpec.
MaxProcs == 2
\* Stop calls, and changes of what makes a start fail, in one behaviour of CtxSpec.
MaxStops == 2
MaxEnvChanges == 1
\* Prestart tasks of the configuration (len(c.prestart)).
NumPrestart == 2
\* Failed Start calls after which backoff.Retry has used up its MaxElapsedTime.
MaxRetries == 2

\* ------------------------------------------------------ program constants
initialBackoff == 50
maxBackoff == 5000
\* README "for up to 1 minute"; backoffPolicy.MaxElapsedTime of the retry loop
MaxElapsedTime == 60000

Min(a, b) == IF a < b THEN a ELSE b

RECURSIVE Pow2(_)
Pow2(n) == IF n = 0 THEN 1 ELSE 2 * Pow2(n - 1)

\* Every goroutine launched by startChild gets the next id; its exec.Cmd and
\* the process it spawns carry the same id.  Start and every HardRestart
\* launch one goroutine, and so does every death of a child (at most), and a
\* child dies of a crash or of one of the two signals of a closeChild.
MaxG == 2 + MaxCrashLoop + MaxCrashes + 3 * (MaxHardRestarts + MaxCloses)

Gids == 1..MaxG

\* The goroutines that call HardRestart and Close: the file watcher's event
\* loop, the HTTP handler of /restart, the main goroutine.  Two calls can be
\* in progress at once.
Callers == {1, 2}

Procs == 1..MaxProcs

\* File changes the watcher reports, and connections of a child to the IPC
\* server, in a run of the soft restart.
MaxChanges == 2
MaxConnects == 2
\* messages the child writes to its IPC connection
MaxMsgs == 2
\* writes of the child to its stdout or stderr
MaxOutputs == 2
\* events the watcher gets for one file
MaxFileEvents == 2
MaxNotes == 2
MaxSinkOps == 4
MaxCasts == 2

\* A path or a glob is a string, kept as the sequence of its pieces: "/" is
\* the separator, "*" the wildcard of a glob, and a name is cut where a rule
\* could end ("vendor" + "ed", ".git" + "ignore", "main" + ".go").
\* w.rootDirectory and the rules of the configuration:
rootDirectory == <<"proj">>

excludePaths == {<<"vendor">>}

hardReload == {<<"*", ".go">>, <<"layout", ".html">>}

softReload == {<<"*", ".html">>}

\* The files whose change is reported (absolute paths).
ChangedFiles ==
    {<<"proj", "/", "index", ".html">>,
     <<"proj", "/", "views", "/", "page", ".html">>,
     <<"proj", "/", "layout", ".html">>,
     <<"proj", "/", "main", ".go">>,
     <<"proj", "/", "vendor", "/", "lib", ".html">>,
     <<"proj", "/", "notes", ".txt">>}

\* strings.HasPrefix(s, prefix)
HasPrefix(s, prefix) ==
    /\ Len(prefix) <= Len(s)
    /\ SubSeq(s, 1, Len(prefix)) = prefix

\* filepath.Rel(w.rootDirectory, filePath) of a file below the root; of any
\* other path the error branch: relPath = filePath
Rel(root, f) ==
    IF HasPrefix(f, root \o <<"/">>) THEN SubSeq(f, Len(root) + 2, Len(f)) ELSE f

\* filepath.Base(filePath): what follows the last separator
Base(f) ==
    LET seps == {i \in 1..Len(f) : f[i] = "/"}
        last == IF seps = {} THEN 0 ELSE CHOOSE i \in seps : \A j \in seps : j <= i
    IN  SubSeq(f, last + 1, Len(f))

\* filepath.Match(pattern, name) for a name without separator: "*" stands
\* for any sequence of characters, every other piece for itself
RECURSIVE Glob(_, _)
Glob(pattern, name) ==
    IF pattern = <<>> THEN name = <<>>
    ELSE IF Head(pattern) = "*"
           THEN \E k \in 0..Len(name) : Glob(Tail(pattern), SubSeq(name, k + 1, Len(name)))
           ELSE name # <<>> /\ Head(name) = Head(pattern) /\ Glob(Tail(pattern), Tail(name))

\* filepath.Match(pattern, filepath.Base(filePath))
Match(pattern, f) == Glob(pattern, Base(f))

\* processFileChange under the rules above (no generated files, no env
\* files): excluded paths first, then the hard-reload globs, then the
\* soft-reload globs; the first match decides
Classify(f) ==
    IF \E e \in excludePaths : HasPrefix(Rel(rootDirectory, f), e) THEN "ignore"
    ELSE IF \E g \in hardReload : Match(g, f) THEN "hard"
    ELSE IF \E g \in softReload : Match(g, f) THEN "soft"
    ELSE "other"

NoPath == <<>>

\* process.ForceHardRestart and process.ForceSoftRestart; a task is a string
\* of one piece
ForceHardRestart == <<"__hard_reload">>

ForceSoftRestart == <<"__soft_reload">>

\* The rules of a filesystemWatcher.  generated, a Go map, is the set of its
\* entries.  New() puts ".git", ".vscode", ".idea" before cfg.ExcludePaths.
NoRules ==
    [excludePaths |-> {}, hardReload |-> {}, softReload |-> {}, generated |-> {},
     envFiles |-> {}]

DefaultExcludes == {<<".git">>, <<".vscode">>, <<".idea">>}

BaseRules ==
    [excludePaths |-> DefaultExcludes \cup {<<"vendor">>},
     hardReload |-> {<<"*", ".go">>},
     softReload |-> {<<"*", ".html">>},
     generated |-> {},
     envFiles |-> {<<".env">>}]

RuleSets ==
    {BaseRules,
     [BaseRules EXCEPT !.generated =
         {[patt |-> <<"*", ".templ">>, tasks |-> <<<<"templ generate">>, ForceSoftRestart>>]}],
     [BaseRules EXCEPT !.generated =
         {[patt |-> <<"*", ".templ">>, tasks |-> <<<<"templ generate">>, ForceHardRestart>>],
          [patt |-> <<"*", ".proto">>, tasks |-> <<<<"protoc">>, ForceHardRestart>>]}],
     [BaseRules EXCEPT !.generated =
         {[patt |-> <<"main", "*">>, tasks |-> <<<<"go generate">>, ForceSoftRestart>>]}]}

\* The files a watcher of RuleSets may see change
WatchedFiles ==
    ChangedFiles \cup
    {<<"proj", "/", "vendor", "ed", "/", "api", ".go">>,
     <<"proj", "/", ".git", "ignore">>,
     <<"proj", "/", ".git", "/", "config">>,
     <<"proj", "/", ".env">>,
     <<"proj", "/", "views", "/", "page", ".templ">>,
     <<"proj", "/", "api", ".proto">>,
     <<"proj", "/", "main", ".templ">>}

\* What passes from the watcher to the loop of ProcessRestartEvents: the
\* channel (a.hardRestart, a.softRestart, a.oobTask) and the Message
NoRequest == [type |-> "none", msg |-> <<>>]

HardRequest(rel) == [type |-> "hard", msg |-> rel]

\* processFileChange, the switch on a task of a generated file
TaskRequest(task, rel) ==
    IF task = ForceHardRestart THEN HardRequest(rel)
    ELSE IF task = ForceSoftRestart THEN [type |-> "soft", msg |-> rel]
    ELSE [type |-> "oob", msg |-> task]

\* "for patt, generated := range w.generated" ends with a return in its
\* first turn: only the entry the map yields first is looked at
NoEntry == [patt |-> <<>>, tasks |-> <<>>]

FirstOf(generated) == IF generated = {} THEN {NoEntry} ELSE generated

\* A classifier that looks at the generated files before the hard-reload globs
processFileChange_GeneratedFirst(w, f, first) ==
    LET rel == Rel(rootDirectory, f)
    IN  IF \E e \in w.excludePaths : HasPrefix(rel, e)
          THEN [ignored |-> TRUE, reqs |-> <<>>]
        ELSE IF first # NoEntry /\ Match(first.patt, f)
          THEN [ignored |-> FALSE,
                reqs |-> [i \in 1..Len(first.tasks) |-> TaskRequest(first.tasks[i], rel)]]
        ELSE IF \E g \in w.hardReload : Match(g, f)
          THEN [ignored |-> FALSE, reqs |-> <<HardRequest(rel)>>]
        ELSE IF \E g \in w.softReload : Match(g, f)
          THEN [ignored |-> FALSE, reqs |-> <<[type |-> "soft", msg |-> rel]>>]
        ELSE [ignored |-> FALSE, reqs |-> <<>>]

\* processFileChange: whether the file was dropped as excluded, and the
\* requests passed to callbackFn, in order.  first is the entry of
\* w.generated that the range statement yields first.
processFileChange(w, f, first) ==
    LET rel == Rel(rootDirectory, f)
    IN  IF \E e \in w.excludePaths : HasPrefix(rel, e)
          THEN [ignored |-> TRUE, reqs |-> <<>>]
        ELSE IF \E g \in w.hardReload : Match(g, f)
          THEN [ignored |-> FALSE, reqs |-> <<HardRequest(rel)>>]
        ELSE IF \E g \in w.softReload : Match(g, f)
          THEN [ignored |-> FALSE, reqs |-> <<[type |-> "soft", msg |-> rel]>>]
        ELSE IF first # NoEntry
          THEN [ignored |-> FALSE,
                reqs |-> IF Match(first.patt, f)
                           THEN [i \in 1..Len(first.tasks) |->
                                    TaskRequest(first.tasks[i], rel)]
                           ELSE <<>>]
        ELSE IF Base(f) \in w.envFiles
          THEN [ignored |-> FALSE, reqs |-> <<HardRequest(rel)>>]
        ELSE [ignored |-> FALSE, reqs |-> <<>>]

Tasks == 1..NumPrestart

\* The goroutines that call Stop(): the restart-event loop of main and any
\* other user of the exported method.
Stoppers == {1, 2}

\* childProcessID := notification.NextID() in Start: an ID that was the
\* latest one minted is now one of an earlier call.
Older(id) == IF id = "this" THEN "prev" ELSE id

VARIABLES
    \* ---- process.go: fields of childProcess
    childCmd,              \* atomic.Value: 0 is nil, g is the exec.Cmd made by goroutine g
    childInnerRunWait,     \* sync.WaitGroup counter
    childOuterRunWait,     \* sync.WaitGroup counter
    isStarting,            \* atomic.Bool
    isExpectingShutdown,   \* atomic.Bool
    backoff,               \* time.Duration (ms), not synchronised
    childCmdClosed,        \* chan bool, capacity 1: number of buffered values
    \* ---- process.go: control state
    gpc,                   \* position of each goroutine launched by startChild
    gtmp,                  \* the value of r.backoff a goroutine has loaded
    nextG,                 \* goroutines launched so far
    startPc,               \* the caller of Start()
    cpc,                   \* the callers of HardRestart() / Close()
    cop,                   \* which operation a caller is in
    ccmd,                  \* the cmd closeChild has loaded
    panicked,              \* the supervising process died of a Go panic
    \* ---- the operating system and the supervised program
    procSet,               \* cmds whose Process field is set (cmd.Start succeeded)
    alive,                 \* child processes running
    termed,                \* children that were sent SIGTERM
    cause,                 \* how a child ended: "none", "self", "signal"
    ignoresTerm,           \* the supervised program ignores SIGTERM
    \* ---- what the environment may still do
    crashesLeft, hardLeft, closeLeft, failsLeft,
    eventsLeft,            \* of the four kinds together
    \* ---- history
    lastWait,              \* the duration of the backoff sleep in progress, 0 if none
    lastK,                 \* unexpected exits handled since the last explicit (re)start, before it
    lastAfterHR,           \* it is the first backoff sleep begun after a HardRestart returned nil
    kSince,                \* unexpected exits handled since the last explicit (re)start
    hrDone,                \* a HardRestart has returned nil and no backoff sleep has begun since
    elapsed,               \* cumulative backoff slept since the last explicit (re)start
    respawnDue,            \* the only child exited unexpectedly; no child was spawned since
    hrDropped,             \* the last HardRestart call returned nil at its isStarting check
    \* ---- Start(ctx, ...) / Stop(): fields of each childProcess the loop of main makes
    cur,                   \* the childProcess of childProcess.Store(proc): 0 is nil
    state,                 \* utils.State: "Stopped", "Starting", "Started", "Stopping"
    childLock,             \* sync.Mutex: "free", "start" (held by Start), "stop" (by a goroutine of Stop)
    closeLock,             \* sync.Mutex: "free", "held" (by the Stop call in progress)
    \* ---- the loop of main, backoff.Retry and the Start call it makes
    dpc,                   \* "new", "call", "spawn", "notify", "select", "waitExit", "backoff", "done"
    retries,               \* Start calls of this Retry that returned an error
    ranChild,              \* a Start call of this Retry spawned a child (time has passed)
    lastErr,               \* what the last Start call returned
    lastEnvOk,             \* nothing stood in the way of a spawn when the last Start call began
    epc,                   \* the goroutine of cmd.Wait(): "none", "wait", "send"
    \* ---- the child of Start(ctx, ...) and the context
    running,               \* the child process runs
    gotTerm,               \* its process group was sent SIGTERM
    ctxDone,               \* the main context is cancelled
    \* ---- the callers of Stop()
    stpc,                  \* "idle", "lock", "set", "sendTerm", "select", "sendKill"
    sproc,                 \* the childProcess the caller loaded
    sgo,                   \* the goroutine of Stop: "none", "lock", "send"
    \* ---- the environment of Start(ctx, ...)
    spawnOk,               \* cmd.Start() would succeed
    prestartOk,            \* the prestart tasks would succeed
    stopsLeft, envLeft,    \* Stop calls and changes of the two above still to come
    badTask,               \* the prestart task that fails when prestartOk is false
    \* ---- what Start(ctx, ...) has done so far
    prestartRuns,          \* prestart tasks run (oobTask.Run calls)
    startups,              \* Startup notifications passed to callbackFn
    shutdowns,             \* Shutdown notifications passed to callbackFn
    stopErr,               \* per caller of Stop: what its last call returned
    forks,                 \* the supervised program starts a descendant in its process group
    desc,                  \* a descendant of the latest child is alive
    \* ---- SoftRestart(path) of process.go and its IPC server
    ipcServer,             \* r.ipcServer: "none" is nil, else "unconnected" or "connected"
    everConnected,         \* a child has connected to an IPC server of the supervisor
    ipcOut,                \* the messages written to the connected child
    spc,                   \* SoftRestart: "idle", "load", "write"
    spath,                 \* SoftRestart: its argument
    softRet,               \* how the last SoftRestart call came to return nil: "dropped"
                           \* (isStarting), "logged" (the error of Write), "sent"
    \* ---- Notifier.SendSoftRestart(hint) of notifier.go, called by the app
    nConnected,            \* n.ipcServer.IsConnected()
    nEver,                 \* the notifier's server has had a connection
    nOut,                  \* what was written to the notifier's connection
    nRet,                  \* what the last SendSoftRestart call returned
    lastFile,              \* the file of the latest change the watcher reported
    changesLeft, connLeft, \* file changes and connections still to come
    hintsLeft,             \* soft restart requests to the app still to come
    \* ---- the goroutine of startIPCServer that reads r.ipcServer
    ipcIn,                 \* the messages r.ipcServer.Read() has yet to return
    ipcReader,             \* the goroutine is in its loop
    rmsg,                  \* the message its Read returned, "none" between two turns
    softDone,              \* SoftRestart notifications passed to the sinks
    hardDone,              \* HardRestart notifications passed to the sinks
    msgsLeft,              \* messages the child may still write
    \* ---- the IPC endpoints of startChild
    nChannels,             \* endpoints opened so far (ipc.StartServer calls that succeeded)
    \* ---- the ChildProccessID of the notifications.  An ID is "this" when the
    \* latest Start call that minted one minted it, "prev" when an earlier call
    \* did, "none" when it is the empty string.
    currentChildProcessID, \* streams.currentChildProcessID of the console
    nChildProcessID,       \* Notifier.childProcessID
    outId,                 \* the ID the latest stdout/stderr notification carried, as of
                           \* the run that wrote the output; "noOutput" before the first
    ipcNoteId,             \* the ID the latest IPC connection notification carried, as of
                           \* the latest run; "noNote" before the first
    outsLeft,              \* writes of the child to stdout/stderr still to come
    \* ---- the watcher (processFileChange), the callback of MonitorFileChanges
    \* and the loop of ProcessRestartEvents
    cw,                    \* the rules of the watcher
    cfile,                 \* the file whose changes are reported
    wpc,                   \* the watcher: "idle", or "send" inside callbackFn
    wtodo,                 \* the requests processFileChange has yet to pass to callbackFn
    issued,                \* the requests the callback has sent to the loop
    lpc,                   \* the loop: "select", "handle", "wait" (for the task it runs)
    lreq,                  \* the request the loop has received
    acted,                 \* the requests the loop is done with
    results,               \* what each processFileChange call decided
    cevLeft,               \* changes of the file still to come
    \* ---- App.Notify: the calls of the sinks, one producer goroutine at a time
    emitted,               \* per producer, the notifications it has passed to App.Notify
    sinkAt,                \* per producer, the place in Sinks of the call it is at; 0 outside App.Notify
    inNotify,              \* per producer, whether the Notify of that sink has not returned yet
    got,                   \* per sink, the notifications its Notify was called with, in order
    \* ---- streams.consoleListeners and notifyEventListeners
    backing,               \* the array under the slice consoleListeners, "nil" in a slot never written
    nListeners,            \* len(s.consoleListeners)
    bpc,                   \* notifyEventListeners: "idle" or "range"
    barr,                  \* the array the range statement iterates over
    bshared,               \* whether that array is still the one under consoleListeners
    blen,                  \* the length the range statement took at its start
    bidx,                  \* the place of the range statement
    recv,                  \* per listener, how often it received the event of the broadcast
    stable,                \* the listeners registered since before the broadcast began
    sinkOps,               \* AddEventSink and RemoveEventSink calls so far
    casts,                 \* notifyEventListeners calls so far
    \* ---- outOfBandTask.Run
    opc,                   \* Run: "idle", "start", "wait", "stdout", "stderr", "return"
    otask,                 \* the command of the task: "notStarted", "failedToStart", "running", "exited"
    oexit,                 \* how the command exited: "none", "ok", "fail"
    obuf,                  \* whether stdoutBuf and stderrBuf hold output
    onotes,                \* the notifications Run passed to callbackFn, each with the state of the command then
    oret,                  \* what Run returned: "none", "nil", "error"
    oruns,                 \* Run calls so far
    \* ---- one childProcess with several callers of Start(ctx, ...) and of Stop()
    kstate,                \* c.state
    klock,                 \* c.childLock: "free", or the caller of Start or the Stop whose goroutine holds it
    kcloseLock,            \* c.closeLock: "free", or the caller of Stop that holds it
    apc,                   \* per caller of Start: "idle", "lock", "spawn", "select", "waitExit"
    ares,                  \* per caller of Start: what its last call returned
    achild,                \* per caller of Start: the child its call spawned, 0 if none
    egs,                   \* per caller of Start: the goroutine of cmd.Wait(): "none", "wait", "send"
    kalive,                \* the children that are alive
    nkids,                 \* children spawned so far
    kctx,                  \* the context of the Start calls is cancelled
    kspc,                   \* per caller of Stop: "idle", "lock", "set", "sendTerm", "select", "sendKill"
    ksgo,                   \* per caller of Stop: its goroutine: "none", "lock", "send"
    ksres,                  \* per caller of Stop: what its last call returned
    kissued,               \* Stop calls that went on to send the terminate request
    kstarts,               \* Start calls so far
    kstops,                \* Stop calls so far
    \* ---- a sink with an event channel: Notify, Close and the goroutine that ranges over the channel
    skStarted,             \* Start() was called
    skIsClosed,            \* c.isClosed
    skChan,                \* c.eventSink: "open" or "closed"
    skReader,              \* the goroutine of 'for ev := range c.eventSink': "none", "recv", "handle", "ended"
    skN,                   \* per caller of Notify: "idle", "check", "send", "panicked"
    skC,                   \* per caller of Close: "idle", "check", "store", "close", "panicked"
    skPanic,               \* a goroutine panicked: the program is gone
    skDelivered,           \* notifications the reader took
    skDropped,             \* notifications Notify returned on without sending
    skNotes,               \* Notify calls so far
    skCloses               \* Close calls so far

\* The state of the supervisor of process.go, but for ignoresTerm
oldVars == <<childCmd, childInnerRunWait, childOuterRunWait, isStarting,
             isExpectingShutdown, backoff, childCmdClosed, gpc, gtmp, nextG, startPc, cpc,
             cop, ccmd, panicked, procSet, alive, termed, cause, crashesLeft, hardLeft,
             closeLeft, failsLeft, eventsLeft, lastWait, lastK, lastAfterHR, kSince,
             hrDone, elapsed, respawnDue, hrDropped>>

\* SoftRestart, SendSoftRestart and their IPC servers, but for r.ipcServer
softRest == <<everConnected, ipcOut, spc, spath, softRet, nConnected, nEver, nOut, nRet,
              lastFile, changesLeft, connLeft, hintsLeft>>

\* The goroutine that reads the IPC server of process.go
ackVars == <<ipcIn, ipcReader, rmsg, softDone, hardDone, msgsLeft>>

\* The endpoints startIPCServer has opened
chanVars == <<nChannels>>

\* The run identifier as the console and the notifier know it
idVars == <<currentChildProcessID, nChildProcessID, outId, ipcNoteId, outsLeft>>

\* The watcher and the loop that serves its requests
clsVars == <<cw, cfile, wpc, wtodo, issued, lpc, lreq, acted, results, cevLeft>>
fanVars == <<emitted, sinkAt, inNotify, got>>
lsnVars == <<backing, nListeners, bpc, barr, bshared, blen, bidx, recv, stable, sinkOps, casts>>
skVars == <<skStarted, skIsClosed, skChan, skReader, skN, skC, skPanic, skDelivered, skDropped, skNotes, skCloses>>
lkVars == <<kstate, klock, kcloseLock, apc, ares, achild, egs, kalive, nkids, kctx, kspc, ksgo, ksres, kissued, kstarts, kstops>>
oobVars == <<opc, otask, oexit, obuf, onotes, oret, oruns>>
notFan == <<ackVars, chanVars, idVars, clsVars, lsnVars, oobVars, lkVars, skVars>>
notLsn == <<ackVars, chanVars, idVars, clsVars, fanVars, oobVars, lkVars, skVars>>
notSk == <<ackVars, chanVars, idVars, clsVars, fanVars, lsnVars, oobVars, lkVars>>
notLk == <<ackVars, chanVars, idVars, clsVars, fanVars, lsnVars, oobVars, skVars>>
\* The goroutines that call Start and Stop on the one childProcess
Starters == {"a1", "a2"}
StopCallers == {"s1", "s2"}
MaxStarts == 3

\* The goroutines that call Notify and Close on the one sink
Notifiers == {"n1", "n2"}
Closers == {"k1", "k2"}
MaxSinkNotes == 3
MaxSinkCloses == 2

notOob == <<ackVars, chanVars, idVars, clsVars, fanVars, lsnVars, lkVars, skVars>>

\* The channels handed to AddEventSink
Listeners == {"a", "b", "c"}

\* The sinks of App.Notify, in the order of its calls
Sinks == <<"db", "consoleWriter", "proxy", "webui", "notifier">>

\* The goroutines that pass notifications to App.Notify: the callback of the
\* watcher and the Start of the child process
Producers == {"watcher", "process"}

\* What the console and the notifier leave alone, and what the watcher does
notId == <<ackVars, chanVars, clsVars, fanVars, lsnVars, oobVars, lkVars, skVars>>

notCls == <<ackVars, chanVars, idVars, fanVars, lsnVars, oobVars, lkVars, skVars>>

\* What the supervisors of process.go and of Start(ctx, ...) leave alone
extLate == <<idVars, clsVars, fanVars, lsnVars, oobVars, lkVars, skVars>>

extRest == <<chanVars, extLate>>

extVars == <<ackVars, extRest>>

softVars == <<ipcServer, softRest, extVars>>

\* The process group of the child (SysProcAttr{Setpgid: true}) besides the child
grpVars == <<forks, desc>>

\* What Start(ctx, ...) has run and emitted
noteVars == <<prestartRuns, startups, shutdowns, badTask>>

\* The state of the supervisor of Start(ctx, ...) and Stop()
newVars == <<cur, state, childLock, closeLock, dpc, retries, ranChild, lastErr, lastEnvOk,
             epc, running, gotTerm, ctxDone, stpc, sproc, sgo, spawnOk, prestartOk,
             stopsLeft, envLeft, noteVars, stopErr, grpVars>>

vars == <<oldVars, ignoresTerm, newVars, softVars>>

\* The environment may make one more event of a kind.
MayHappen(left) == left > 0 /\ eventsLeft > 0

\* New(): the zero childProcess, nothing started.
InitFields ==
    /\ childCmd = 0
    /\ childInnerRunWait = 0
    /\ childOuterRunWait = 0
    /\ isStarting = FALSE
    /\ isExpectingShutdown = FALSE
    /\ backoff = 0
    /\ childCmdClosed = 0
    /\ gpc = [g \in Gids |-> "none"]
    /\ gtmp = [g \in Gids |-> 0]
    /\ nextG = 0
    /\ startPc = "idle"
    /\ cpc = [c \in Callers |-> "idle"]
    /\ cop = [c \in Callers |-> "none"]
    /\ ccmd = [c \in Callers |-> 0]
    /\ panicked = FALSE
    /\ procSet = {}
    /\ alive = {}
    /\ termed = {}
    /\ cause = [g \in Gids |-> "none"]
    /\ lastWait = 0
    /\ lastK = 0
    /\ lastAfterHR = FALSE
    /\ kSince = 0
    /\ hrDone = FALSE
    /\ elapsed = 0
    /\ respawnDue = FALSE
    /\ hrDropped = FALSE
    /\ ipcServer = "none"
    /\ everConnected = FALSE
    /\ ipcOut = <<>>
    /\ spc = "idle"
    /\ spath = NoPath
    /\ softRet = "none"
    /\ nConnected = FALSE
    /\ nEver = FALSE
    /\ nOut = <<>>
    /\ nRet = "none"
    /\ lastFile = NoPath
    /\ ipcIn = <<>>
    /\ ipcReader = FALSE
    /\ rmsg = "none"
    /\ softDone = 0
    /\ hardDone = 0
    /\ nChannels = 0
    /\ currentChildProcessID = "none"
    /\ nChildProcessID = "none"
    /\ outId = "noOutput"
    /\ ipcNoteId = "noNote"
    /\ wpc = "idle"
    /\ wtodo = <<>>
    /\ issued = <<>>
    /\ lpc = "select"
    /\ lreq = NoRequest
    /\ acted = <<>>
    /\ results = <<>>
    /\ emitted = [p \in Producers |-> 0]
    /\ sinkAt = [p \in Producers |-> 0]
    /\ inNotify = [p \in Producers |-> FALSE]
    /\ got = [i \in 1..Len(Sinks) |-> <<>>]
    /\ backing = <<>>
    /\ nListeners = 0
    /\ bpc = "idle"
    /\ barr = <<>>
    /\ bshared = FALSE
    /\ blen = 0
    /\ bidx = 0
    /\ recv = [l \in Listeners |-> 0]
    /\ stable = {}
    /\ sinkOps = 0
    /\ casts = 0
    /\ skStarted = FALSE
    /\ skIsClosed = FALSE
    /\ skChan = "open"
    /\ skReader = "none"
    /\ skN = [n \in Notifiers |-> "idle"]
    /\ skC = [k \in Closers |-> "idle"]
    /\ skPanic = FALSE
    /\ skDelivered = 0
    /\ skDropped = 0
    /\ skNotes = 0
    /\ skCloses = 0
    /\ opc = "idle"
    /\ otask = "notStarted"
    /\ oexit = "none"
    /\ obuf = [stdout |-> FALSE, stderr |-> FALSE]
    /\ onotes = <<>>
    /\ oret = "none"
    /\ oruns = 0
    /\ kstate = "Stopped"
    /\ klock = "free"
    /\ kcloseLock = "free"
    /\ apc = [c \in Starters |-> "idle"]
    /\ ares = [c \in Starters |-> "none"]
    /\ achild = [c \in Starters |-> 0]
    /\ egs = [c \in Starters |-> "none"]
    /\ kalive = {}
    /\ nkids = 0
    /\ kctx = FALSE
    /\ kspc = [s \in StopCallers |-> "idle"]
    /\ ksgo = [s \in StopCallers |-> "none"]
    /\ ksres = [s \in StopCallers |-> "none"]
    /\ kissued = 0
    /\ kstarts = 0
    /\ kstops = 0

\* NewChildProcess(): state Stopped, both locks free; main before its loop.
InitCtxFields ==
    /\ cur = 0
    /\ state = [p \in Procs |-> "Stopped"]
    /\ childLock = [p \in Procs |-> "free"]
    /\ closeLock = [p \in Procs |-> "free"]
    /\ dpc = "new"
    /\ retries = 0
    /\ ranChild = FALSE
    /\ lastErr = "none"
    /\ lastEnvOk = FALSE
    /\ epc = "none"
    /\ running = FALSE
    /\ gotTerm = FALSE
    /\ ctxDone = FALSE
    /\ stpc = [s \in Stoppers |-> "idle"]
    /\ sproc = [s \in Stoppers |-> 0]
    /\ sgo = [s \in Stoppers |-> "none"]
    /\ stopErr = [s \in Stoppers |-> "none"]
    /\ desc = FALSE
    /\ prestartRuns = 0
    /\ startups = 0
    /\ shutdowns = 0

Init ==
    /\ InitFields
    /\ ignoresTerm \in BOOLEAN
    /\ crashesLeft = MaxCrashes
    /\ hardLeft = MaxHardRestarts
    /\ closeLeft = MaxCloses
    /\ failsLeft = MaxStartFailures
    /\ eventsLeft = MaxEvents
    /\ InitCtxFields
    /\ spawnOk = TRUE
    /\ prestartOk = TRUE
    /\ stopsLeft = 0
    /\ envLeft = 0
    /\ badTask = 1
    /\ forks = FALSE
    /\ changesLeft = 0
    /\ connLeft = 0
    /\ hintsLeft = 0
    /\ msgsLeft = 0
    /\ outsLeft = 0
    /\ cw = NoRules
    /\ cfile = NoPath
    /\ cevLeft = 0

\* ------------------------------------------------------------- startChild
\* The synchronous part of startChild(): the atomic stores and "go func()".
\* pcs is the goroutine table as the caller leaves it.
startChild(pcs) ==
    /\ isExpectingShutdown' = FALSE
    /\ isStarting' = TRUE
    /\ nextG' = nextG + 1
    /\ gpc' = [pcs EXCEPT ![nextG + 1] = "wait"]

\* The goroutine returns; nothing refers to its child any more.
GoDone(g) ==
    /\ gpc' = [gpc EXCEPT ![g] = "done"]
    /\ cause' = [cause EXCEPT ![g] = "none"]
    /\ termed' = termed \ {g}

\* r.childInnerRunWait.Wait()
Go_InnerWait(g) ==
    /\ ~panicked
    /\ gpc[g] = "wait"
    /\ childInnerRunWait = 0
    /\ gpc' = [gpc EXCEPT ![g] = "add"]
    /\ UNCHANGED <<childCmd, childInnerRunWait, childOuterRunWait, isStarting,
                   isExpectingShutdown, backoff, childCmdClosed, gtmp, nextG, startPc, cpc,
                   cop, ccmd, panicked, procSet, alive, termed, cause, ignoresTerm,
                   crashesLeft, hardLeft, closeLeft, eventsLeft, failsLeft, lastWait, lastK, lastAfterHR,
                   kSince, hrDone, elapsed, respawnDue, hrDropped>>
    /\ UNCHANGED <<newVars, softVars>>

\* ipcChannel := "gomon-" + uuid.New().String(): a goroutine of startChild
\* mints its own endpoint name, so the name is known by the goroutine, and
\* the child that goroutine g spawns gets GOMON_IPC_CHANNEL=ipcChannel(g).
ipcChannel(g) == g

\* The endpoint names the children spawned so far were given
EnvChannels == {ipcChannel(g) : g \in procSet}

\* r.childInnerRunWait.Add(1); notify Startup; executePrestart() and
\* startIPCServer(ipcChannel) succeed: r.ipcServer is a new server on a new
\* endpoint, no child connected, and a new goroutine reads it
Go_InnerAdd(g) ==
    /\ ~panicked
    /\ gpc[g] = "add"
    /\ childInnerRunWait' = childInnerRunWait + 1
    /\ gpc' = [gpc EXCEPT ![g] = "check"]
    /\ UNCHANGED <<childCmd, childOuterRunWait, isStarting, isExpectingShutdown, backoff,
                   childCmdClosed, gtmp, nextG, startPc, cpc, cop, ccmd, panicked, procSet,
                   alive, termed, cause, ignoresTerm, crashesLeft, hardLeft, closeLeft, eventsLeft,
                   failsLeft, lastWait, lastK, lastAfterHR, kSince, hrDone, elapsed,
                   respawnDue, hrDropped>>
    /\ ipcServer' = "unconnected"
    /\ ipcIn' = <<>>
    /\ ipcReader' = TRUE
    /\ nChannels' = nChannels + 1
    /\ UNCHANGED <<newVars, softRest, rmsg, softDone, hardDone, msgsLeft, extLate>>

\* r.childInnerRunWait.Add(1); executePrestart() or startIPCServer() returns
\* an error: log, return (the deferred Done undoes the Add).  A failed
\* startIPCServer has replaced r.ipcServer by a server without a connection.
Go_PrepareFails(g) ==
    /\ ~panicked
    /\ gpc[g] = "add"
    /\ MayHappen(failsLeft)
    /\ failsLeft' = failsLeft - 1
    /\ eventsLeft' = eventsLeft - 1
    /\ GoDone(g)
    /\ UNCHANGED <<childCmd, childInnerRunWait, childOuterRunWait, isStarting,
                   isExpectingShutdown, backoff, childCmdClosed, gtmp, nextG, startPc, cpc,
                   cop, ccmd, panicked, procSet, alive, ignoresTerm, crashesLeft, hardLeft,
                   closeLeft, lastWait, lastK, lastAfterHR, kSince, hrDone, elapsed,
                   respawnDue, hrDropped>>
    /\ \/ UNCHANGED <<ipcServer, ipcIn, ipcReader>>
       \/ /\ ipcServer' = "unconnected"
          /\ ipcIn' = <<>>
          /\ ipcReader' = FALSE
    /\ UNCHANGED <<newVars, softRest, rmsg, softDone, hardDone, msgsLeft, extRest>>

\* if r.getChildCmd() != nil { log "already running"; return }
Go_CheckCmd(g) ==
    /\ ~panicked
    /\ gpc[g] = "check"
    /\ IF childCmd # 0
         THEN /\ GoDone(g)
              /\ childInnerRunWait' = childInnerRunWait - 1
         ELSE /\ gpc' = [gpc EXCEPT ![g] = "set"]
              /\ UNCHANGED <<childInnerRunWait, cause, termed>>
    /\ UNCHANGED <<childCmd, childOuterRunWait, isStarting, isExpectingShutdown, backoff,
                   childCmdClosed, gtmp, nextG, startPc, cpc, cop, ccmd, panicked, procSet,
                   alive, ignoresTerm, crashesLeft, hardLeft, closeLeft, failsLeft, eventsLeft,
                   lastWait, lastK, lastAfterHR, kSince, hrDone, elapsed, respawnDue, hrDropped>>
    /\ UNCHANGED <<newVars, softVars>>

\* cmd.Env gets GOMON_IPC_CHANNEL=ipcChannel; r.setChildCmd(cmd); cmd.Start()
\* succeeds: the child runs in its own process group; r.isStarting.Store(false)
Go_Spawn(g) ==
    /\ ~panicked
    /\ gpc[g] = "set"
    /\ childCmd' = g
    /\ procSet' = procSet \cup {g}
    /\ alive' = alive \cup {g}
    /\ isStarting' = FALSE
    /\ respawnDue' = FALSE
    /\ gpc' = [gpc EXCEPT ![g] = "cmdWait"]
    /\ UNCHANGED <<childInnerRunWait, childOuterRunWait, isExpectingShutdown,
                   backoff, childCmdClosed, gtmp, nextG, startPc, cpc, cop, ccmd, panicked,
                   termed, cause, ignoresTerm, crashesLeft, hardLeft, closeLeft, eventsLeft, failsLeft,
                   lastWait, lastK, lastAfterHR, kSince, hrDone, elapsed>>
    /\ UNCHANGED hrDropped
    /\ UNCHANGED <<newVars, softVars>>

\* r.setChildCmd(cmd); cmd.Start() returns an error: log and return
\* (childCmd stays set, cmd.Process stays nil)
Go_SpawnFails(g) ==
    /\ ~panicked
    /\ gpc[g] = "set"
    /\ childCmd' = g
    /\ MayHappen(failsLeft)
    /\ failsLeft' = failsLeft - 1
    /\ eventsLeft' = eventsLeft - 1
    /\ GoDone(g)
    /\ childInnerRunWait' = childInnerRunWait - 1
    /\ UNCHANGED <<childOuterRunWait, isStarting, isExpectingShutdown, backoff, childCmdClosed,
                   gtmp, nextG, startPc, cpc, cop, ccmd, panicked, procSet, alive, ignoresTerm,
                   crashesLeft, hardLeft, closeLeft, lastWait, lastK, lastAfterHR, kSince,
                   hrDone, elapsed, respawnDue, hrDropped>>
    /\ UNCHANGED <<newVars, softVars>>

\* cmd.Wait() returns: the child has ended and is reaped, its pid and its
\* process group are gone
Go_Waited(g) ==
    /\ ~panicked
    /\ gpc[g] = "cmdWait"
    /\ g \notin alive
    /\ gpc' = [gpc EXCEPT ![g] = "exited"]
    /\ UNCHANGED <<childInnerRunWait, childOuterRunWait, isStarting, isExpectingShutdown,
                   backoff, childCmd, childCmdClosed, gtmp, nextG, startPc, cpc, cop, ccmd, panicked,
                   procSet, alive, termed, cause, ignoresTerm, crashesLeft, hardLeft,
                   closeLeft, eventsLeft, failsLeft, lastWait, lastK, lastAfterHR, kSince, hrDone, elapsed,
                   respawnDue, hrDropped>>
    /\ UNCHANGED <<newVars, softVars>>

\* notify Shutdown; r.setChildCmd(nil)
Go_Exited(g) ==
    /\ ~panicked
    /\ gpc[g] = "exited"
    /\ childCmd' = 0
    /\ gpc' = [gpc EXCEPT ![g] = "checkExpect"]
    /\ UNCHANGED <<childInnerRunWait, childOuterRunWait, isStarting, isExpectingShutdown,
                   backoff, childCmdClosed, gtmp, nextG, startPc, cpc, cop, ccmd, panicked,
                   procSet, alive, termed, cause, ignoresTerm, crashesLeft, hardLeft,
                   closeLeft, eventsLeft, failsLeft, lastWait, lastK, lastAfterHR, kSince, hrDone, elapsed,
                   respawnDue, hrDropped>>
    /\ UNCHANGED <<newVars, softVars>>

\* The crash branch: "child process exited unexpectedly, restarting";
\* cap r.backoff at maxBackoff; time.Sleep(r.backoff) begins
CrashBranch(g) ==
    /\ backoff' = Min(backoff, maxBackoff)
    /\ gpc' = [gpc EXCEPT ![g] = "sleep"]
    /\ elapsed' = elapsed + Min(backoff, maxBackoff)
    /\ IF cause[g] = "self"
         THEN /\ lastWait' = Min(backoff, maxBackoff)
              /\ lastK' = kSince
              /\ lastAfterHR' = hrDone
              /\ kSince' = kSince + 1
              /\ hrDone' = FALSE
         ELSE UNCHANGED <<lastWait, lastK, lastAfterHR, kSince, hrDone>>
    /\ respawnDue' = (respawnDue \/ (cause[g] = "self" /\ alive = {}))
    /\ UNCHANGED <<gtmp, cause, termed, childInnerRunWait, childOuterRunWait, panicked>>

\* The other branch: r.childOuterRunWait.Done(), and the goroutine returns
ExpectedBranch(g) ==
    /\ IF childOuterRunWait = 0
         THEN /\ panicked' = TRUE          \* "sync: negative WaitGroup counter"
              /\ UNCHANGED <<gpc, cause, termed, childInnerRunWait, childOuterRunWait>>
         ELSE /\ childOuterRunWait' = childOuterRunWait - 1
              /\ childInnerRunWait' = childInnerRunWait - 1
              /\ GoDone(g)
              /\ UNCHANGED panicked
    /\ UNCHANGED <<backoff, gtmp, lastWait, lastK, lastAfterHR, kSince, hrDone, elapsed, respawnDue>>

\* if !r.isExpectingShutdown.Load() {...} else {...}
Go_CheckExpecting(g) ==
    /\ ~panicked
    /\ gpc[g] = "checkExpect"
    /\ IF ~isExpectingShutdown THEN CrashBranch(g) ELSE ExpectedBranch(g)
    /\ UNCHANGED <<childCmd, isStarting, isExpectingShutdown, childCmdClosed, nextG, startPc,
                   cpc, cop, ccmd, procSet, alive, ignoresTerm, crashesLeft, hardLeft,
                   closeLeft, failsLeft, eventsLeft>>
    /\ UNCHANGED hrDropped
    /\ UNCHANGED <<newVars, softVars>>

\* The handler with the restart lost: time.Sleep returns and the handler
\* goes on to "r.backoff *= 2" without r.startChild().
Go_Restart_NoRespawn(g) ==
    /\ ~panicked
    /\ gpc[g] = "sleep"
    /\ gpc' = [gpc EXCEPT ![g] = "load"]
    /\ lastWait' = 0
    /\ lastK' = 0
    /\ lastAfterHR' = FALSE
    /\ UNCHANGED <<childCmd, childInnerRunWait, childOuterRunWait, isStarting,
                   isExpectingShutdown, backoff, childCmdClosed, gtmp, nextG, startPc, cpc,
                   cop, ccmd, panicked, procSet, alive, termed, cause, ignoresTerm,
                   crashesLeft, hardLeft, closeLeft, eventsLeft, failsLeft, kSince, hrDone,
                   elapsed, respawnDue, hrDropped>>
    /\ UNCHANGED <<newVars, softVars>>

\* time.Sleep returns; r.startChild()
Go_Restart(g) ==
    /\ ~panicked
    /\ gpc[g] = "sleep"
    /\ startChild([gpc EXCEPT ![g] = "load"])
    /\ lastWait' = 0
    /\ lastK' = 0
    /\ lastAfterHR' = FALSE
    /\ UNCHANGED <<childCmd, childInnerRunWait, childOuterRunWait, backoff, childCmdClosed,
                   gtmp, startPc, cpc, cop, ccmd, panicked, procSet, alive, termed, cause,
                   ignoresTerm, crashesLeft, hardLeft, closeLeft, eventsLeft, failsLeft, kSince, hrDone,
                   elapsed, respawnDue, hrDropped>>
    /\ UNCHANGED <<newVars, softVars>>

\* r.backoff *= 2: the load
Go_BackoffLoad(g) ==
    /\ ~panicked
    /\ gpc[g] = "load"
    /\ gtmp' = [gtmp EXCEPT ![g] = backoff]
    /\ gpc' = [gpc EXCEPT ![g] = "store"]
    /\ UNCHANGED <<childCmd, childInnerRunWait, childOuterRunWait, isStarting,
                   isExpectingShutdown, backoff, childCmdClosed, nextG, startPc, cpc, cop,
                   ccmd, panicked, procSet, alive, termed, cause, ignoresTerm, crashesLeft,
                   hardLeft, closeLeft, eventsLeft, failsLeft, lastWait, lastK, lastAfterHR, kSince,
                   hrDone, elapsed, respawnDue, hrDropped>>
    /\ UNCHANGED <<newVars, softVars>>

\* The handler with the doubling lost: r.backoff is stored back as loaded.
Go_BackoffStore_NoDouble(g) ==
    /\ ~panicked
    /\ gpc[g] = "store"
    /\ backoff' = gtmp[g]
    /\ gtmp' = [gtmp EXCEPT ![g] = 0]
    /\ GoDone(g)
    /\ childInnerRunWait' = childInnerRunWait - 1
    /\ UNCHANGED <<childCmd, childOuterRunWait, isStarting, isExpectingShutdown,
                   childCmdClosed, nextG, startPc, cpc, cop, ccmd, panicked, procSet, alive,
                   ignoresTerm, crashesLeft, hardLeft, closeLeft, failsLeft, eventsLeft,
                   lastWait, lastK, lastAfterHR, kSince, hrDone, elapsed, respawnDue, hrDropped>>
    /\ UNCHANGED <<newVars, softVars>>

\* r.backoff *= 2: the store; then the goroutine returns
Go_BackoffStore(g) ==
    /\ ~panicked
    /\ gpc[g] = "store"
    /\ backoff' = 2 * gtmp[g]
    /\ gtmp' = [gtmp EXCEPT ![g] = 0]
    /\ GoDone(g)
    /\ childInnerRunWait' = childInnerRunWait - 1
    /\ UNCHANGED <<childCmd, childOuterRunWait, isStarting, isExpectingShutdown,
                   childCmdClosed, nextG, startPc, cpc, cop, ccmd, panicked, procSet, alive,
                   ignoresTerm, crashesLeft, hardLeft, closeLeft, failsLeft, eventsLeft,
                   lastWait, lastK, lastAfterHR, kSince, hrDone, elapsed, respawnDue, hrDropped>>
    /\ UNCHANGED <<newVars, softVars>>

\* ------------------------------------------------------------------ Start
\* Start(): r.backoff = initialBackoff; r.childOuterRunWait.Add(1); r.startChild()
Start_Call ==
    /\ ~panicked
    /\ startPc = "idle"
    /\ backoff' = initialBackoff
    /\ childOuterRunWait' = childOuterRunWait + 1
    /\ startChild(gpc)
    /\ startPc' = "wait"
    /\ UNCHANGED <<childCmd, childInnerRunWait, childCmdClosed, gtmp, cpc, cop, ccmd, panicked,
                   procSet, alive, termed, cause, ignoresTerm, crashesLeft, hardLeft,
                   closeLeft, eventsLeft, failsLeft, lastWait, lastK, lastAfterHR, kSince, hrDone, elapsed,
                   respawnDue, hrDropped>>
    /\ UNCHANGED <<newVars, softVars>>

\* r.childOuterRunWait.Wait(); r.childCmdClosed <- true; return nil
Start_Return ==
    /\ ~panicked
    /\ startPc = "wait"
    /\ childOuterRunWait = 0
    /\ childCmdClosed = 0
    /\ childCmdClosed' = 1
    /\ startPc' = "returned"
    /\ UNCHANGED <<childCmd, childInnerRunWait, childOuterRunWait, isStarting,
                   isExpectingShutdown, backoff, gpc, gtmp, nextG, cpc, cop, ccmd, panicked,
                   procSet, alive, termed, cause, ignoresTerm, crashesLeft, hardLeft,
                   closeLeft, eventsLeft, failsLeft, lastWait, lastK, lastAfterHR, kSince, hrDone, elapsed,
                   respawnDue, hrDropped>>
    /\ UNCHANGED <<newVars, softVars>>

\* ------------------------------------------------- HardRestart and Close
\* A new call is made by the first caller that is free.
FreeCaller(c) ==
    /\ cpc[c] = "idle"
    /\ \A d \in Callers : d < c => cpc[d] # "idle"

Return(c) ==
    /\ cpc' = [cpc EXCEPT ![c] = "idle"]
    /\ cop' = [cop EXCEPT ![c] = "none"]
    /\ ccmd' = [ccmd EXCEPT ![c] = 0]

\* The process group of cmd g is there to be signalled: the child runs, or
\* it has ended and cmd.Wait() has not yet reaped it.
PidExists(g) == gpc[g] = "cmdWait"

\* closeChild returned nil: Close returns nil, HardRestart goes on
closeChildDone(c, op) ==
    IF op = "close"
      THEN Return(c)
      ELSE /\ cpc' = [cpc EXCEPT ![c] = "after"]
           /\ cop' = [cop EXCEPT ![c] = op]
           /\ ccmd' = [ccmd EXCEPT ![c] = 0]

\* closeChild: cmd := r.getChildCmd(); a nil cmd or a nil cmd.Process: return nil
closeChildGet(c, op) ==
    IF childCmd = 0 \/ childCmd \notin procSet
      THEN closeChildDone(c, op)
      ELSE /\ cpc' = [cpc EXCEPT ![c] = "term"]
           /\ cop' = [cop EXCEPT ![c] = op]
           /\ ccmd' = [ccmd EXCEPT ![c] = childCmd]

\* HardRestart that goes on to closeChild() although isStarting is set
HardRestart_Dropped_Restarts(c) ==
    /\ ~panicked
    /\ startPc # "idle"
    /\ FreeCaller(c)
    /\ MayHappen(hardLeft)
    /\ isStarting
    /\ hardLeft' = hardLeft - 1
    /\ hrDropped' = FALSE
    /\ eventsLeft' = eventsLeft - 1
    /\ childOuterRunWait' = childOuterRunWait + 1
    /\ cpc' = [cpc EXCEPT ![c] = "get"]
    /\ cop' = [cop EXCEPT ![c] = "hard"]
    /\ UNCHANGED <<childCmd, childInnerRunWait, isStarting, isExpectingShutdown, backoff,
                   childCmdClosed, gpc, gtmp, nextG, startPc, ccmd, panicked, procSet, alive,
                   termed, cause, ignoresTerm, crashesLeft, closeLeft, failsLeft, lastWait,
                   lastK, lastAfterHR, kSince, hrDone, elapsed, respawnDue>>
    /\ UNCHANGED <<newVars, softVars>>

\* HardRestart(path) while isStarting: return nil
HardRestart_Dropped(c) ==
    /\ ~panicked
    /\ startPc # "idle"
    /\ FreeCaller(c)
    /\ MayHappen(hardLeft)
    /\ isStarting
    /\ hardLeft' = hardLeft - 1
    /\ hrDropped' = TRUE
    /\ eventsLeft' = eventsLeft - 1
    /\ UNCHANGED <<childCmd, childInnerRunWait, childOuterRunWait, isStarting,
                   isExpectingShutdown, backoff, childCmdClosed, gpc, gtmp, nextG, startPc,
                   cpc, cop, ccmd, panicked, procSet, alive, termed, cause, ignoresTerm,
                   crashesLeft, closeLeft, failsLeft, lastWait, lastK, lastAfterHR, kSince,
                   hrDone, elapsed, respawnDue>>
    /\ UNCHANGED <<newVars, softVars>>

\* HardRestart(path) otherwise: r.childOuterRunWait.Add(1), then closeChild()
HardRestart_Call(c) ==
    /\ ~panicked
    /\ startPc # "idle"
    /\ FreeCaller(c)
    /\ MayHappen(hardLeft)
    /\ ~isStarting
    /\ hardLeft' = hardLeft - 1
    /\ hrDropped' = FALSE
    /\ eventsLeft' = eventsLeft - 1
    /\ childOuterRunWait' = childOuterRunWait + 1
    /\ cpc' = [cpc EXCEPT ![c] = "get"]
    /\ cop' = [cop EXCEPT ![c] = "hard"]
    /\ UNCHANGED <<childCmd, childInnerRunWait, isStarting, isExpectingShutdown, backoff,
                   childCmdClosed, gpc, gtmp, nextG, startPc, ccmd, panicked, procSet, alive,
                   termed, cause, ignoresTerm, crashesLeft, closeLeft, failsLeft, lastWait,
                   lastK, lastAfterHR, kSince, hrDone, elapsed, respawnDue>>
    /\ UNCHANGED <<newVars, softVars>>

\* HardRestart: closeChild() begins
HardRestart_Get(c) ==
    /\ ~panicked
    /\ cpc[c] = "get"
    /\ closeChildGet(c, "hard")
    /\ UNCHANGED <<childCmd, childInnerRunWait, childOuterRunWait, isStarting,
                   isExpectingShutdown, backoff, childCmdClosed, gpc, gtmp, nextG, startPc,
                   panicked, procSet, alive, termed, cause, ignoresTerm, crashesLeft, hardLeft,
                   closeLeft, eventsLeft, failsLeft, lastWait, lastK, lastAfterHR, kSince, hrDone, elapsed,
                   respawnDue, hrDropped>>
    /\ UNCHANGED <<newVars, softVars>>

\* Close(): closeChild() begins (the IPC shutdown message is not modelled)
Close_Call(c) ==
    /\ ~panicked
    /\ startPc # "idle"
    /\ FreeCaller(c)
    /\ MayHappen(closeLeft)
    /\ closeLeft' = closeLeft - 1
    /\ eventsLeft' = eventsLeft - 1
    /\ closeChildGet(c, "close")
    /\ UNCHANGED <<childCmd, childInnerRunWait, childOuterRunWait, isStarting,
                   isExpectingShutdown, backoff, childCmdClosed, gpc, gtmp, nextG, startPc,
                   panicked, procSet, alive, termed, cause, ignoresTerm, crashesLeft, hardLeft,
                   failsLeft, lastWait, lastK, lastAfterHR, kSince, hrDone, elapsed,
                   respawnDue, hrDropped>>
    /\ UNCHANGED <<newVars, softVars>>

\* closeChild: r.isExpectingShutdown.Store(true); syscall.Kill(-pid, SIGTERM);
\* the error of a process group that is gone is returned to the caller,
\* which returns it
closeChild_Term(c) ==
    /\ ~panicked
    /\ cpc[c] = "term"
    /\ isExpectingShutdown' = TRUE
    /\ IF PidExists(ccmd[c])
         THEN /\ termed' = termed \cup {ccmd[c]}
              /\ cpc' = [cpc EXCEPT ![c] = "select"]
              /\ UNCHANGED <<cop, ccmd>>
         ELSE /\ Return(c)
              /\ UNCHANGED termed
    /\ UNCHANGED <<childCmd, childInnerRunWait, childOuterRunWait, isStarting, backoff,
                   childCmdClosed, gpc, gtmp, nextG, startPc, panicked, procSet, alive, cause,
                   ignoresTerm, crashesLeft, hardLeft, closeLeft, eventsLeft, failsLeft, lastWait, lastK,
                   lastAfterHR, kSince, hrDone, elapsed, respawnDue, hrDropped>>
    /\ UNCHANGED <<newVars, softVars>>

\* closeChild: case <-r.childCmdClosed
closeChild_Closed(c) ==
    /\ ~panicked
    /\ cpc[c] = "select"
    /\ childCmdClosed > 0
    /\ childCmdClosed' = childCmdClosed - 1
    /\ closeChildDone(c, cop[c])
    /\ UNCHANGED <<childCmd, childInnerRunWait, childOuterRunWait, isStarting,
                   isExpectingShutdown, backoff, gpc, gtmp, nextG, startPc, panicked, procSet,
                   alive, termed, cause, ignoresTerm, crashesLeft, hardLeft, closeLeft, eventsLeft,
                   failsLeft, lastWait, lastK, lastAfterHR, kSince, hrDone, elapsed,
                   respawnDue, hrDropped>>
    /\ UNCHANGED <<newVars, softVars>>

\* closeChild: case <-time.After(r.killTimeout): cmd = r.getChildCmd();
\* if cmd != nil, syscall.Kill(-cmd.Process.Pid, SIGKILL)
closeChild_Timeout(c) ==
    /\ ~panicked
    /\ cpc[c] = "select"
    /\ IF childCmd = 0
         THEN /\ closeChildDone(c, cop[c])
              /\ UNCHANGED <<panicked, alive, cause>>
         ELSE IF childCmd \notin procSet
                THEN /\ panicked' = TRUE       \* nil pointer: cmd.Process.Pid
                     /\ UNCHANGED <<cpc, cop, ccmd, alive, cause>>
                ELSE IF PidExists(childCmd)
                       THEN /\ alive' = alive \ {childCmd}
                            /\ cause' = [cause EXCEPT ![childCmd] =
                                            IF childCmd \in alive THEN "signal" ELSE @]
                            /\ closeChildDone(c, cop[c])
                            /\ UNCHANGED panicked
                       ELSE /\ Return(c)         \* "killing child process" error
                            /\ UNCHANGED <<panicked, alive, cause>>
    /\ UNCHANGED <<childCmd, childInnerRunWait, childOuterRunWait, isStarting,
                   isExpectingShutdown, backoff, childCmdClosed, gpc, gtmp, nextG, startPc,
                   procSet, termed, ignoresTerm, crashesLeft, hardLeft, closeLeft, eventsLeft, failsLeft,
                   lastWait, lastK, lastAfterHR, kSince, hrDone, elapsed, respawnDue, hrDropped>>
    /\ UNCHANGED <<newVars, softVars>>

\* HardRestart after closeChild returned nil: r.backoff = initialBackoff;
\* r.startChild(); return nil
HardRestart_Restart(c) ==
    /\ ~panicked
    /\ cpc[c] = "after"
    /\ backoff' = initialBackoff
    /\ startChild(gpc)
    /\ Return(c)
    /\ hrDone' = TRUE
    /\ kSince' = 0
    /\ elapsed' = 0
    /\ UNCHANGED <<childCmd, childInnerRunWait, childOuterRunWait, childCmdClosed, gtmp,
                   startPc, panicked, procSet, alive, termed, cause, ignoresTerm, crashesLeft,
                   hardLeft, closeLeft, eventsLeft, failsLeft, lastWait, lastK, lastAfterHR, respawnDue, hrDropped>>
    /\ UNCHANGED <<newVars, softVars>>

\* ------------------------------------------------- the supervised program
\* The child exits on its own (a crash, or the program simply ends).
ChildCrash(p) ==
    /\ p \in alive
    /\ p \notin termed
    /\ MayHappen(crashesLeft)
    /\ crashesLeft' = crashesLeft - 1
    /\ eventsLeft' = eventsLeft - 1
    /\ alive' = alive \ {p}
    /\ cause' = [cause EXCEPT ![p] = "self"]
    /\ UNCHANGED <<childCmd, childInnerRunWait, childOuterRunWait, isStarting,
                   isExpectingShutdown, backoff, childCmdClosed, gpc, gtmp, nextG, startPc,
                   cpc, cop, ccmd, panicked, procSet, termed, ignoresTerm, hardLeft, closeLeft,
                   failsLeft, lastWait, lastK, lastAfterHR, kSince, hrDone, elapsed,
                   respawnDue, hrDropped>>
    /\ UNCHANGED <<newVars, softVars>>

\* The child exits because of SIGTERM.
ChildExitOnTerm(p) ==
    /\ p \in alive
    /\ p \in termed
    /\ ~ignoresTerm
    /\ alive' = alive \ {p}
    /\ cause' = [cause EXCEPT ![p] = "signal"]
    /\ UNCHANGED <<childCmd, childInnerRunWait, childOuterRunWait, isStarting,
                   isExpectingShutdown, backoff, childCmdClosed, gpc, gtmp, nextG, startPc,
                   cpc, cop, ccmd, panicked, procSet, termed, ignoresTerm, crashesLeft,
                   hardLeft, closeLeft, eventsLeft, failsLeft, lastWait, lastK, lastAfterHR, kSince,
                   hrDone, elapsed, respawnDue, hrDropped>>
    /\ UNCHANGED <<newVars, softVars>>

\* ------------------------------------------- Start(ctx, ...) and the loop
\* for ctx.Err() == nil { proc := NewChildProcess(cfg); childProcess.Store(proc);
\* backoff.Retry(proc.Start ...) }: the next childProcess, or the end of the loop
Driver_New ==
    /\ dpc = "new"
    /\ IF ctxDone
         THEN /\ dpc' = "done"
              /\ UNCHANGED <<cur, retries, ranChild, lastErr>>
         ELSE /\ cur < MaxProcs
              /\ cur' = cur + 1
              /\ retries' = 0
              /\ ranChild' = FALSE
              /\ lastErr' = "none"
              /\ dpc' = "call"
    /\ UNCHANGED grpVars
    /\ UNCHANGED <<oldVars, softVars, ignoresTerm, state, childLock, closeLock, lastEnvOk, epc,
                   running, gotTerm, ctxDone, stpc, sproc, sgo, spawnOk, prestartOk,
                   stopsLeft, envLeft>>
    /\ UNCHANGED <<noteVars, stopErr>>

\* Start returns err to backoff.Retry
StartFails(err) ==
    /\ lastErr' = err
    /\ retries' = retries + 1
    /\ dpc' = "backoff"

\* A prestart loop that goes on after a task has failed
PrestartRun_All == Tasks

\* for _, task := range c.prestart { err := oobTask.Run(...); if err != nil
\* { return ... } }: the tasks that run, in order, up to the first that fails
PrestartRun == IF prestartOk THEN Tasks ELSE {t \in Tasks : t <= badTask}

\* Start without the check of the state in front of the prestart tasks
StartCtx_Begin_NoCheck ==
    /\ dpc = "call"
    /\ childLock[cur] = "free"
    /\ lastEnvOk' = (spawnOk /\ prestartOk /\ ~ctxDone)
    /\ currentChildProcessID' = Older(currentChildProcessID)
    /\ nChildProcessID' = Older(nChildProcessID)
    /\ prestartRuns' = prestartRuns + Cardinality(PrestartRun)
    /\ IF ~prestartOk
         THEN /\ StartFails("prestart")
              /\ UNCHANGED <<state, childLock>>
         ELSE /\ state' = [state EXCEPT ![cur] = "Starting"]
              /\ childLock' = [childLock EXCEPT ![cur] = "start"]
              /\ dpc' = "spawn"
              /\ UNCHANGED <<lastErr, retries>>
    /\ UNCHANGED <<startups, shutdowns, badTask, stopErr>>
    /\ UNCHANGED grpVars
    /\ UNCHANGED <<ipcServer, softRest, notId, outId, ipcNoteId, outsLeft>>
    /\ UNCHANGED <<oldVars, ignoresTerm, cur, closeLock, ranChild, epc, running, gotTerm,
                   ctxDone, stpc, sproc, sgo, spawnOk, prestartOk, stopsLeft, envLeft>>

\* Start: c.childLock.Lock(); a state other than Stopped: "process is already
\* running"; the prestart tasks, an error of one is returned; c.state.Set(Starting)
StartCtx_Begin ==
    /\ dpc = "call"
    /\ childLock[cur] = "free"
    /\ lastEnvOk' = (spawnOk /\ prestartOk /\ ~ctxDone)
    /\ IF state[cur] # "Stopped"
         THEN /\ StartFails("running")
              /\ UNCHANGED <<state, childLock, prestartRuns, currentChildProcessID,
                             nChildProcessID>>
         ELSE /\ currentChildProcessID' = Older(currentChildProcessID)
              /\ nChildProcessID' = Older(nChildProcessID)
              /\ prestartRuns' = prestartRuns + Cardinality(PrestartRun)
              /\ IF ~prestartOk
                   THEN /\ StartFails("prestart")
                        /\ UNCHANGED <<state, childLock>>
                   ELSE /\ state' = [state EXCEPT ![cur] = "Starting"]
                        /\ childLock' = [childLock EXCEPT ![cur] = "start"]
                        /\ dpc' = "spawn"
                        /\ UNCHANGED <<lastErr, retries>>
    /\ UNCHANGED <<startups, shutdowns, badTask, stopErr>>
    /\ UNCHANGED grpVars
    /\ UNCHANGED <<ipcServer, softRest, notId, outId, ipcNoteId, outsLeft>>
    /\ UNCHANGED <<oldVars, ignoresTerm, cur, closeLock, ranChild, epc, running, gotTerm,
                   ctxDone, stpc, sproc, sgo, spawnOk, prestartOk, stopsLeft, envLeft>>

\* Start: cmd.Start(); an error (of the spawn, or ctx.Err() of a cancelled
\* context) is returned with the state left as it is; otherwise the child
\* runs and c.state.Set(Started)
StartCtx_Spawn ==
    /\ dpc = "spawn"
    /\ IF spawnOk /\ ~ctxDone
         THEN /\ state' = [state EXCEPT ![cur] = "Started"]
              /\ running' = TRUE
              /\ gotTerm' = FALSE
              /\ ranChild' = TRUE
              /\ desc' = forks
              /\ dpc' = "notify"
              /\ UNCHANGED <<childLock, lastErr, retries>>
         ELSE /\ StartFails("spawn")
              /\ childLock' = [childLock EXCEPT ![cur] = "free"]
              /\ UNCHANGED <<state, running, gotTerm, ranChild, desc>>
    /\ UNCHANGED <<prestartRuns, startups, shutdowns, badTask, stopErr, forks, epc>>
    /\ UNCHANGED <<oldVars, softVars, ignoresTerm, cur, closeLock, lastEnvOk, ctxDone, stpc, sproc,
                   sgo, spawnOk, prestartOk, stopsLeft, envLeft>>

\* Start: callbackFn(Notification{ChildProccessID: childProcessID, Type:
\* NotificationTypeStartup}): App.Notify hands it to the console, whose Notify
\* stores the ID in currentChildProcessID, and to the notifier, whose Notify
\* stores it in childProcessID; then "go func() { cmd.Wait() ... }"
StartCtx_Notify ==
    /\ dpc = "notify"
    /\ startups' = startups + 1
    /\ currentChildProcessID' = "this"
    /\ nChildProcessID' = "this"
    /\ epc' = "wait"
    /\ dpc' = "select"
    /\ UNCHANGED <<prestartRuns, shutdowns, badTask, stopErr, grpVars>>
    /\ UNCHANGED <<ipcServer, softRest, notId, outId, ipcNoteId, outsLeft>>
    /\ UNCHANGED <<oldVars, ignoresTerm, cur, state, childLock, closeLock, retries, ranChild,
                   lastErr, lastEnvOk, running, gotTerm, ctxDone, stpc, sproc, sgo, spawnOk,
                   prestartOk, stopsLeft, envLeft>>

\* The console: the child of the latest run writes to cmd.Stdout or
\* cmd.Stderr; streamWriter.Write sends the text to the goroutine of
\* streams.Start, whose write() passes one notification per line with
\* ChildProccessID: s.currentChildProcessID.
Console_Write ==
    /\ outsLeft > 0
    /\ running
    /\ outsLeft' = outsLeft - 1
    /\ outId' = currentChildProcessID
    /\ UNCHANGED <<oldVars, ignoresTerm, newVars, ipcServer, softRest, notId,
                   currentChildProcessID, nChildProcessID, ipcNoteId>>

\* Stop returns nil: the deferred c.closeLock.Unlock()
StopReturns(s) ==
    /\ stpc' = [stpc EXCEPT ![s] = "idle"]
    /\ stopErr' = [stopErr EXCEPT ![s] = "nil"]
    /\ sproc' = [sproc EXCEPT ![s] = 0]
    /\ closeLock' = [closeLock EXCEPT ![sproc[s]] = "free"]

\* case <-c.termChild: the send of a Stop is taken; syscall.Kill(-pid, SIGTERM);
\* the error of a process group that is gone (the child was waited for) is
\* returned, with the state left as it is
StartCtx_RecvTerm(s) ==
    /\ stpc[s] = "sendTerm"
    /\ sproc[s] = cur
    /\ stpc' = [stpc EXCEPT ![s] = "select"]
    /\ IF epc = "send" /\ ~desc
         THEN /\ StartFails("kill")
              /\ childLock' = [childLock EXCEPT ![cur] = "free"]
              /\ UNCHANGED gotTerm
         ELSE /\ gotTerm' = TRUE
              /\ dpc' = "waitExit"
              /\ UNCHANGED <<childLock, lastErr, retries>>
    /\ UNCHANGED <<running, sproc, closeLock, stopErr>>

\* case <-c.killChild: the send of a Stop is taken, and that Stop returns;
\* cancelChildContext() kills the child.  (A Stop sends on killChild only
\* after its send on termChild was taken, and Start selects once.)
StartCtx_RecvKill(s) ==
    /\ stpc[s] = "sendKill"
    /\ sproc[s] = cur
    /\ StopReturns(s)
    /\ running' = FALSE
    /\ dpc' = "waitExit"
    /\ UNCHANGED <<childLock, lastErr, retries, gotTerm>>

\* case <-childContext.Done()
StartCtx_CtxDone ==
    /\ ctxDone
    /\ dpc' = "waitExit"
    /\ UNCHANGED <<stpc, sproc, closeLock, stopErr, childLock, lastErr, retries, gotTerm, running>>

\* Start: select { case <-c.termChild; case <-c.killChild; case <-childContext.Done() }
StartCtx_Select ==
    /\ dpc = "select"
    /\ \/ \E s \in Stoppers : StartCtx_RecvTerm(s)
       \/ \E s \in Stoppers : StartCtx_RecvKill(s)
       \/ StartCtx_CtxDone
    /\ UNCHANGED grpVars
    /\ UNCHANGED <<oldVars, softVars, ignoresTerm, cur, state, ranChild, lastEnvOk, epc, ctxDone,
                   sgo, spawnOk, prestartOk, stopsLeft, envLeft>>
    /\ UNCHANGED noteVars

\* A Start whose return ends the loop of main
StartCtx_RecvExit_EndsLoop ==
    /\ dpc = "waitExit"
    /\ epc = "send"
    /\ epc' = "none"
    /\ state' = [state EXCEPT ![cur] = "Stopped"]
    /\ childLock' = [childLock EXCEPT ![cur] = "free"]
    /\ lastErr' = "none"
    /\ dpc' = "done"
    /\ shutdowns' = shutdowns + 1
    /\ UNCHANGED <<prestartRuns, startups, badTask, stopErr>>
    /\ UNCHANGED grpVars
    /\ UNCHANGED <<oldVars, softVars, ignoresTerm, cur, closeLock, retries, ranChild, lastEnvOk,
                   running, gotTerm, ctxDone, stpc, sproc, sgo, spawnOk, prestartOk,
                   stopsLeft, envLeft>>

\* Start: s := <-exitStatus; c.state.Set(Stopped); the Shutdown notification;
\* return nil, and backoff.Retry returns nil
StartCtx_RecvExit ==
    /\ dpc = "waitExit"
    /\ epc = "send"
    /\ epc' = "none"
    /\ state' = [state EXCEPT ![cur] = "Stopped"]
    /\ childLock' = [childLock EXCEPT ![cur] = "free"]
    /\ lastErr' = "none"
    /\ dpc' = "new"
    /\ shutdowns' = shutdowns + 1
    /\ UNCHANGED <<prestartRuns, startups, badTask, stopErr>>
    /\ UNCHANGED grpVars
    /\ UNCHANGED <<oldVars, softVars, ignoresTerm, cur, closeLock, retries, ranChild, lastEnvOk,
                   running, gotTerm, ctxDone, stpc, sproc, sgo, spawnOk, prestartOk,
                   stopsLeft, envLeft>>

\* go func(): cmd.Wait() returns, the child is gone; next is exitStatus <- s
Exit_Wait ==
    /\ epc = "wait"
    /\ ~running
    /\ epc' = "send"
    /\ UNCHANGED grpVars
    /\ UNCHANGED <<oldVars, softVars, ignoresTerm, cur, state, childLock, closeLock, dpc, retries,
                   ranChild, lastErr, lastEnvOk, running, gotTerm, ctxDone, stpc, sproc,
                   sgo, spawnOk, prestartOk, stopsLeft, envLeft>>
    /\ UNCHANGED <<noteVars, stopErr>>

\* backoff.Retry: the next attempt, after the interval of the policy
Retry_Again ==
    /\ dpc = "backoff"
    /\ retries < MaxRetries
    /\ dpc' = "call"
    /\ UNCHANGED grpVars
    /\ UNCHANGED <<oldVars, softVars, ignoresTerm, cur, state, childLock, closeLock, retries,
                   ranChild, lastErr, lastEnvOk, epc, running, gotTerm, ctxDone, stpc,
                   sproc, sgo, spawnOk, prestartOk, stopsLeft, envLeft>>
    /\ UNCHANGED <<noteVars, stopErr>>

\* backoff.Retry: MaxElapsedTime has passed (failed calls used it up, or the
\* child of one call ran that long): Retry returns the error; ctxCancel(); return
Retry_GiveUp ==
    /\ dpc = "backoff"
    /\ retries >= MaxRetries \/ ranChild
    /\ ctxDone' = TRUE
    /\ dpc' = "done"
    /\ UNCHANGED grpVars
    /\ UNCHANGED <<oldVars, softVars, ignoresTerm, cur, state, childLock, closeLock, retries,
                   ranChild, lastErr, lastEnvOk, epc, running, gotTerm, stpc, sproc, sgo,
                   spawnOk, prestartOk, stopsLeft, envLeft>>
    /\ UNCHANGED <<noteVars, stopErr>>

\* ------------------------------------------------------------------ Stop
FreeStopper(s) ==
    /\ stpc[s] = "idle"
    /\ sgo[s] = "none"
    /\ \A d \in Stoppers : d < s => stpc[d] # "idle"

\* proc := childProcess.Load(); if proc != nil { proc.Stop() }
Stop_Call(s) ==
    /\ FreeStopper(s)
    /\ stopsLeft > 0
    /\ cur # 0
    /\ stopsLeft' = stopsLeft - 1
    /\ stpc' = [stpc EXCEPT ![s] = "lock"]
    /\ sproc' = [sproc EXCEPT ![s] = cur]
    /\ stopErr' = [stopErr EXCEPT ![s] = "none"]
    /\ UNCHANGED grpVars
    /\ UNCHANGED <<oldVars, softVars, ignoresTerm, cur, state, childLock, closeLock, dpc, retries,
                   ranChild, lastErr, lastEnvOk, epc, running, gotTerm, ctxDone, sgo,
                   spawnOk, prestartOk, envLeft>>
    /\ UNCHANGED noteVars

\* Stop without the check of the state
Stop_Lock_NoCheck(s) ==
    /\ stpc[s] = "lock"
    /\ closeLock[sproc[s]] = "free"
    /\ closeLock' = [closeLock EXCEPT ![sproc[s]] = "held"]
    /\ stpc' = [stpc EXCEPT ![s] = "set"]
    /\ UNCHANGED <<sproc, stopErr>>
    /\ UNCHANGED grpVars
    /\ UNCHANGED <<oldVars, softVars, ignoresTerm, cur, state, childLock, dpc, retries, ranChild,
                   lastErr, lastEnvOk, epc, running, gotTerm, ctxDone, sgo, spawnOk,
                   prestartOk, stopsLeft, envLeft>>
    /\ UNCHANGED noteVars

\* Stop: c.closeLock.Lock(); c.state.Get(): a state other than Started is
\* "process is not running", returned with the lock released
Stop_Lock(s) ==
    /\ stpc[s] = "lock"
    /\ closeLock[sproc[s]] = "free"
    /\ IF state[sproc[s]] # "Started"
         THEN /\ stpc' = [stpc EXCEPT ![s] = "idle"]
              /\ sproc' = [sproc EXCEPT ![s] = 0]
              /\ stopErr' = [stopErr EXCEPT ![s] = "notRunning"]
              /\ UNCHANGED closeLock
         ELSE /\ closeLock' = [closeLock EXCEPT ![sproc[s]] = "held"]
              /\ stpc' = [stpc EXCEPT ![s] = "set"]
              /\ UNCHANGED <<sproc, stopErr>>
    /\ UNCHANGED grpVars
    /\ UNCHANGED <<oldVars, softVars, ignoresTerm, cur, state, childLock, dpc, retries, ranChild,
                   lastErr, lastEnvOk, epc, running, gotTerm, ctxDone, sgo, spawnOk,
                   prestartOk, stopsLeft, envLeft>>
    /\ UNCHANGED noteVars

\* Stop: c.state.Set(Stopping); go func() {...}; next is c.termChild <- struct{}{}
Stop_Set(s) ==
    /\ stpc[s] = "set"
    /\ state' = [state EXCEPT ![sproc[s]] = "Stopping"]
    /\ sgo' = [sgo EXCEPT ![s] = "lock"]
    /\ stpc' = [stpc EXCEPT ![s] = "sendTerm"]
    /\ UNCHANGED grpVars
    /\ UNCHANGED <<oldVars, softVars, ignoresTerm, cur, childLock, closeLock, dpc, retries, ranChild,
                   lastErr, lastEnvOk, epc, running, gotTerm, ctxDone, sproc, spawnOk,
                   prestartOk, stopsLeft, envLeft>>
    /\ UNCHANGED <<noteVars, stopErr>>

\* the goroutine of Stop: c.childLock.Lock(); next is isChildClosed <- struct{}{}
StopGo_Lock(s) ==
    /\ sgo[s] = "lock"
    /\ childLock[sproc[s]] = "free"
    /\ childLock' = [childLock EXCEPT ![sproc[s]] = "stop"]
    /\ sgo' = [sgo EXCEPT ![s] = "send"]
    /\ UNCHANGED grpVars
    /\ UNCHANGED <<oldVars, softVars, ignoresTerm, cur, state, closeLock, dpc, retries, ranChild,
                   lastErr, lastEnvOk, epc, running, gotTerm, ctxDone, stpc, sproc,
                   spawnOk, prestartOk, stopsLeft, envLeft>>
    /\ UNCHANGED <<noteVars, stopErr>>

\* Stop: case <-isChildClosed: the goroutine's send is taken and it unlocks
\* childLock; Stop returns nil
Stop_RecvClosed(s) ==
    /\ stpc[s] = "select"
    /\ sgo[s] = "send"
    /\ sgo' = [sgo EXCEPT ![s] = "none"]
    /\ childLock' = [childLock EXCEPT ![sproc[s]] = "free"]
    /\ StopReturns(s)
    /\ UNCHANGED grpVars
    /\ UNCHANGED <<oldVars, softVars, ignoresTerm, cur, state, dpc, retries, ranChild, lastErr,
                   lastEnvOk, epc, running, gotTerm, ctxDone, spawnOk, prestartOk,
                   stopsLeft, envLeft>>
    /\ UNCHANGED noteVars

\* Stop: case <-time.After(c.killTimeout): next is c.killChild <- struct{}{}
Stop_Timeout(s) ==
    /\ stpc[s] = "select"
    /\ stpc' = [stpc EXCEPT ![s] = "sendKill"]
    /\ UNCHANGED grpVars
    /\ UNCHANGED <<oldVars, softVars, ignoresTerm, cur, state, childLock, closeLock, dpc, retries,
                   ranChild, lastErr, lastEnvOk, epc, running, gotTerm, ctxDone, sproc,
                   sgo, spawnOk, prestartOk, stopsLeft, envLeft>>
    /\ UNCHANGED <<noteVars, stopErr>>

\* ------------------------------------- the child, the context, the system
\* The child exits on its own.
Child_Exits ==
    /\ running
    /\ running' = FALSE
    /\ UNCHANGED grpVars
    /\ UNCHANGED <<oldVars, softVars, ignoresTerm, cur, state, childLock, closeLock, dpc, retries,
                   ranChild, lastErr, lastEnvOk, epc, gotTerm, ctxDone, stpc, sproc, sgo,
                   spawnOk, prestartOk, stopsLeft, envLeft>>
    /\ UNCHANGED <<noteVars, stopErr>>

\* The child exits because of SIGTERM.
Child_ExitsOnTerm ==
    /\ running
    /\ gotTerm
    /\ ~ignoresTerm
    /\ running' = FALSE
    /\ UNCHANGED grpVars
    /\ UNCHANGED <<oldVars, softVars, ignoresTerm, cur, state, childLock, closeLock, dpc, retries,
                   ranChild, lastErr, lastEnvOk, epc, gotTerm, ctxDone, stpc, sproc, sgo,
                   spawnOk, prestartOk, stopsLeft, envLeft>>
    /\ UNCHANGED <<noteVars, stopErr>>

\* A descendant of the child exits because of the SIGTERM to the group.
Desc_ExitsOnTerm ==
    /\ desc
    /\ gotTerm
    /\ ~ignoresTerm
    /\ desc' = FALSE
    /\ UNCHANGED forks
    /\ UNCHANGED <<oldVars, softVars, ignoresTerm, cur, state, childLock, closeLock, dpc, retries,
                   ranChild, lastErr, lastEnvOk, epc, running, gotTerm, ctxDone, stpc, sproc,
                   sgo, spawnOk, prestartOk, stopsLeft, envLeft>>
    /\ UNCHANGED <<noteVars, stopErr>>

\* A descendant of the child exits on its own, once the child is gone.
Desc_Exits ==
    /\ desc
    /\ ~running
    /\ desc' = FALSE
    /\ UNCHANGED forks
    /\ UNCHANGED <<oldVars, softVars, ignoresTerm, cur, state, childLock, closeLock, dpc, retries,
                   ranChild, lastErr, lastEnvOk, epc, running, gotTerm, ctxDone, stpc, sproc,
                   sgo, spawnOk, prestartOk, stopsLeft, envLeft>>
    /\ UNCHANGED <<noteVars, stopErr>>

\* exec.CommandContext: the context of the command is done, the child is
\* killed: cmd.Process.Kill() signals the one process, not its group
Cmd_CtxKill ==
    /\ ctxDone
    /\ running
    /\ running' = FALSE
    /\ UNCHANGED grpVars
    /\ UNCHANGED <<oldVars, softVars, ignoresTerm, cur, state, childLock, closeLock, dpc, retries,
                   ranChild, lastErr, lastEnvOk, epc, gotTerm, ctxDone, stpc, sproc, sgo,
                   spawnOk, prestartOk, stopsLeft, envLeft>>
    /\ UNCHANGED <<noteVars, stopErr>>

\* SIGINT or SIGTERM to gomon, or a component that failed: ctxCancel()
Ctx_Cancel ==
    /\ ~ctxDone
    /\ dpc # "done"
    /\ ctxDone' = TRUE
    /\ UNCHANGED grpVars
    /\ UNCHANGED <<oldVars, softVars, ignoresTerm, cur, state, childLock, closeLock, dpc, retries,
                   ranChild, lastErr, lastEnvOk, epc, running, gotTerm, stpc, sproc, sgo,
                   spawnOk, prestartOk, stopsLeft, envLeft>>
    /\ UNCHANGED <<noteVars, stopErr>>

\* What cmd.Start() needs (the program to run) appears or disappears.
Env_Spawn ==
    /\ envLeft > 0
    /\ envLeft' = envLeft - 1
    /\ spawnOk' = ~spawnOk
    /\ UNCHANGED grpVars
    /\ UNCHANGED <<oldVars, softVars, ignoresTerm, cur, state, childLock, closeLock, dpc, retries,
                   ranChild, lastErr, lastEnvOk, epc, running, gotTerm, ctxDone, stpc,
                   sproc, sgo, prestartOk, stopsLeft>>
    /\ UNCHANGED <<noteVars, stopErr>>

\* What the prestart tasks need appears or disappears.
Env_Prestart ==
    /\ envLeft > 0
    /\ envLeft' = envLeft - 1
    /\ prestartOk' = ~prestartOk
    /\ UNCHANGED grpVars
    /\ UNCHANGED <<oldVars, softVars, ignoresTerm, cur, state, childLock, closeLock, dpc, retries,
                   ranChild, lastErr, lastEnvOk, epc, running, gotTerm, ctxDone, stpc,
                   sproc, sgo, spawnOk, stopsLeft>>
    /\ UNCHANGED <<noteVars, stopErr>>

\* ------------------------------------------------------------ SoftRestart
OldUnchangedBySoft ==
    UNCHANGED <<childCmd, childInnerRunWait, childOuterRunWait, isStarting,
                isExpectingShutdown, backoff, childCmdClosed, gpc, gtmp, nextG, startPc,
                cpc, cop, ccmd, procSet, alive, termed, cause, ignoresTerm, crashesLeft,
                hardLeft, closeLeft, failsLeft, eventsLeft, lastWait, lastK, lastAfterHR,
                kSince, hrDone, elapsed, respawnDue, hrDropped>>

\* processFileChange of the watcher for a written file: a match of a
\* soft-reload glob calls SoftRestart(relPath); the other outcomes do not
\* concern SoftRestart
File_Changed(f) ==
    /\ ~panicked
    /\ startPc # "idle"
    /\ changesLeft > 0
    /\ spc = "idle"
    /\ changesLeft' = changesLeft - 1
    /\ lastFile' = f
    /\ IF Classify(f) = "soft"
         THEN /\ spc' = "load"
              /\ spath' = Rel(rootDirectory, f)
              /\ softRet' = "none"
         ELSE UNCHANGED <<spc, spath, softRet>>
    /\ OldUnchangedBySoft
    /\ UNCHANGED extVars
    /\ UNCHANGED <<panicked, newVars, ipcServer, everConnected, ipcOut, nConnected, nEver,
                   nOut, nRet, connLeft, hintsLeft>>

\* A SoftRestart that writes although isStarting is set
SoftRestart_Load_NoCheck ==
    /\ ~panicked
    /\ spc = "load"
    /\ spc' = "write"
    /\ OldUnchangedBySoft
    /\ UNCHANGED extVars
    /\ UNCHANGED <<panicked, newVars, ipcServer, everConnected, ipcOut, spath, softRet,
                   nConnected, nEver, nOut, nRet, changesLeft, connLeft, lastFile, hintsLeft>>

\* SoftRestart: isStarting := r.isStarting.Load(); if isStarting { return nil }
SoftRestart_Load ==
    /\ ~panicked
    /\ spc = "load"
    /\ IF isStarting
         THEN /\ spc' = "idle"
              /\ spath' = NoPath
              /\ softRet' = "dropped"
         ELSE /\ spc' = "write"
              /\ UNCHANGED <<spath, softRet>>
    /\ OldUnchangedBySoft
    /\ UNCHANGED extVars
    /\ UNCHANGED <<panicked, newVars, ipcServer, everConnected, ipcOut, nConnected, nEver,
                   nOut, nRet, changesLeft, connLeft, lastFile, hintsLeft>>

\* A Write that sends the message twice
SoftRestart_Write_Twice ==
    /\ ~panicked
    /\ spc = "write"
    /\ ipcOut' = IF ipcServer = "connected"
                   THEN ipcOut \o <<[type |-> "reload", data |-> spath],
                                    [type |-> "reload", data |-> spath]>>
                   ELSE ipcOut
    /\ spc' = "idle"
    /\ spath' = NoPath
    /\ softRet' = "sent"
    /\ OldUnchangedBySoft
    /\ UNCHANGED extVars
    /\ UNCHANGED <<panicked, newVars, ipcServer, everConnected, nConnected, nEver, nOut, nRet,
                   changesLeft, connLeft, lastFile, hintsLeft>>

\* SoftRestart: err := r.ipcServer.Write(gomonclient.MsgTypeReload, []byte(path));
\* an error is logged; return nil.  A nil r.ipcServer is a nil pointer
\* dereference; a server without a connection has nobody to write to.
SoftRestart_Write ==
    /\ ~panicked
    /\ spc = "write"
    /\ IF ipcServer = "none"
         THEN /\ panicked' = TRUE
              /\ UNCHANGED <<ipcOut, spc, spath, softRet>>
         ELSE /\ ipcOut' = IF ipcServer = "connected"
                             THEN Append(ipcOut, [type |-> "reload", data |-> spath])
                             ELSE ipcOut
              /\ spc' = "idle"
              /\ spath' = NoPath
              /\ softRet' = IF ipcServer = "connected" THEN "sent" ELSE "logged"
              /\ UNCHANGED panicked
    /\ OldUnchangedBySoft
    /\ UNCHANGED extVars
    /\ UNCHANGED <<newVars, ipcServer, everConnected, nConnected, nEver, nOut, nRet,
                   changesLeft, connLeft, lastFile, hintsLeft>>

\* The child (GOMON_IPC_CHANNEL is in its environment) connects to the server.
Ipc_Connect ==
    /\ ~panicked
    /\ connLeft > 0
    /\ alive # {}
    /\ ipcServer = "unconnected"
    /\ ipcServer' = "connected"
    /\ everConnected' = TRUE
    /\ connLeft' = connLeft - 1
    /\ OldUnchangedBySoft
    /\ UNCHANGED extVars
    /\ UNCHANGED <<panicked, newVars, ipcOut, spc, spath, softRet, nConnected, nEver, nOut,
                   nRet, changesLeft, lastFile, hintsLeft>>

\* The connection ends: the child closed it or is gone.  The server hands
\* its reader an internal message of status "Disconnected".
Ipc_Disconnect ==
    /\ ~panicked
    /\ ipcServer = "connected"
    /\ ipcServer' = "unconnected"
    /\ ipcIn' = Append(ipcIn, "disconnected")
    /\ OldUnchangedBySoft
    /\ UNCHANGED <<ipcReader, rmsg, softDone, hardDone, msgsLeft, extRest>>
    /\ UNCHANGED <<panicked, newVars, everConnected, ipcOut, spc, spath, softRet, nConnected,
                   nEver, nOut, nRet, changesLeft, connLeft, lastFile, hintsLeft>>

\* The child writes a message to its connection: gomonclient.MsgTypeReloaded
\* after a reload, MsgTypePing, MsgTypeStartup, or one of a type the
\* supervisor does not know.
Child_Sends(m) ==
    /\ ~panicked
    /\ msgsLeft > 0
    /\ alive # {}
    /\ ipcServer = "connected"
    /\ msgsLeft' = msgsLeft - 1
    /\ ipcIn' = Append(ipcIn, m)
    /\ OldUnchangedBySoft
    /\ UNCHANGED <<panicked, newVars, ipcServer, softRest, ipcReader, rmsg, softDone,
                   hardDone, extRest>>

\* startIPCServer, the goroutine: msg, err := r.ipcServer.Read()
Reader_Read ==
    /\ ~panicked
    /\ ipcReader
    /\ rmsg = "none"
    /\ ipcIn # <<>>
    /\ rmsg' = Head(ipcIn)
    /\ ipcIn' = Tail(ipcIn)
    /\ OldUnchangedBySoft
    /\ UNCHANGED <<panicked, newVars, ipcServer, softRest, ipcReader, softDone, hardDone,
                   msgsLeft, extRest>>

\* A reader that passes the reload notification to the sinks twice
Reader_Handle_Twice ==
    /\ ~panicked
    /\ rmsg # "none"
    /\ rmsg' = "none"
    /\ softDone' = IF rmsg = "reloaded" THEN softDone + 2 ELSE softDone
    /\ hardDone' = IF rmsg = "startup" THEN hardDone + 1 ELSE hardDone
    /\ ipcOut' = IF rmsg = "ping" /\ ipcServer = "connected"
                   THEN Append(ipcOut, [type |-> "pong", data |-> NoPath])
                   ELSE ipcOut
    /\ ipcReader' = IF rmsg = "disconnected" THEN FALSE ELSE ipcReader
    /\ OldUnchangedBySoft
    /\ UNCHANGED <<panicked, newVars, ipcServer, everConnected, spc, spath, softRet,
                   nConnected, nEver, nOut, nRet, lastFile, changesLeft, connLeft,
                   hintsLeft, ipcIn, msgsLeft, extRest>>

\* startIPCServer, the goroutine: switch msg.MsgType.  MsgTypeReloaded:
\* notifyEventSinks(SoftRestart); MsgTypePing: Write(MsgTypePong), its error
\* logged; MsgTypeStartup: isStarted (read nowhere) and
\* notifyEventSinks(HardRestart); MsgTypeInternal of status "Disconnected":
\* return; any other type: a warning.
Reader_Handle ==
    /\ ~panicked
    /\ rmsg # "none"
    /\ rmsg' = "none"
    /\ softDone' = IF rmsg = "reloaded" THEN softDone + 1 ELSE softDone
    /\ hardDone' = IF rmsg = "startup" THEN hardDone + 1 ELSE hardDone
    /\ ipcOut' = IF rmsg = "ping" /\ ipcServer = "connected"
                   THEN Append(ipcOut, [type |-> "pong", data |-> NoPath])
                   ELSE ipcOut
    /\ ipcReader' = IF rmsg = "disconnected" THEN FALSE ELSE ipcReader
    /\ OldUnchangedBySoft
    /\ UNCHANGED <<panicked, newVars, ipcServer, everConnected, spc, spath, softRet,
                   nConnected, nEver, nOut, nRet, lastFile, changesLeft, connLeft,
                   hintsLeft, ipcIn, msgsLeft, extRest>>

\* The watcher gets an event for cfile and calls processFileChange, whose
\* first callbackFn call is next.
Watcher_Event ==
    /\ wpc = "idle"
    /\ cevLeft > 0
    /\ cevLeft' = cevLeft - 1
    /\ \E first \in FirstOf(cw.generated) :
          LET r == processFileChange(cw, cfile, first)
          IN  /\ results' = Append(results, r)
              /\ wtodo' = r.reqs
              /\ wpc' = IF r.reqs = <<>> THEN "idle" ELSE "send"
    /\ UNCHANGED <<cw, cfile, issued, lpc, lreq, acted>>
    /\ UNCHANGED <<oldVars, ignoresTerm, newVars, ipcServer, softRest, notCls>>

\* The callback of MonitorFileChanges: the send on a.hardRestart,
\* a.softRestart or a.oobTask (unbuffered) meets the receive of the select
\* of ProcessRestartEvents; then a.Notify(n) and back to processFileChange.
Callback_Send ==
    /\ wpc = "send"
    /\ lpc = "select"
    /\ lreq' = Head(wtodo)
    /\ lpc' = "handle"
    /\ issued' = Append(issued, Head(wtodo))
    /\ wtodo' = Tail(wtodo)
    /\ wpc' = IF Tail(wtodo) = <<>> THEN "idle" ELSE "send"
    /\ UNCHANGED <<cw, cfile, acted, results, cevLeft>>
    /\ UNCHANGED <<oldVars, ignoresTerm, newVars, ipcServer, softRest, notCls>>

\* A loop that starts the task and goes back to its select
Loop_Handle_Async ==
    /\ lpc = "handle"
    /\ acted' = IF lreq.type = "oob" THEN acted ELSE Append(acted, lreq)
    /\ lpc' = "select"
    /\ lreq' = NoRequest
    /\ UNCHANGED <<cw, cfile, wpc, wtodo, issued, results, cevLeft>>
    /\ UNCHANGED <<oldVars, ignoresTerm, newVars, ipcServer, softRest, notCls>>

\* ProcessRestartEvents, the case of the channel: proc.Stop() for a hard
\* restart and SendSoftRestart(hint) for a soft one return, and the loop
\* selects again; proc.ExecuteOOBTask(task, a.Notify) starts the task
Loop_Handle ==
    /\ lpc = "handle"
    /\ IF lreq.type = "oob"
         THEN /\ lpc' = "wait"
              /\ UNCHANGED <<lreq, acted>>
         ELSE /\ acted' = Append(acted, lreq)
              /\ lpc' = "select"
              /\ lreq' = NoRequest
    /\ UNCHANGED <<cw, cfile, wpc, wtodo, issued, results, cevLeft>>
    /\ UNCHANGED <<oldVars, ignoresTerm, newVars, ipcServer, softRest, notCls>>

\* ExecuteOOBTask returns when the command has ended (cmd.Wait() of
\* outOfBandTask.Run); the loop selects again
Loop_TaskDone ==
    /\ lpc = "wait"
    /\ acted' = Append(acted, lreq)
    /\ lpc' = "select"
    /\ lreq' = NoRequest
    /\ UNCHANGED <<cw, cfile, wpc, wtodo, issued, results, cevLeft>>
    /\ UNCHANGED <<oldVars, ignoresTerm, newVars, ipcServer, softRest, notCls>>

\* processFileChange: the SoftRestartRequested notification of a soft-reload
\* match, with Message relPath, goes to the softRestart channel of the app;
\* ProcessRestartEvents calls a.notifier.SendSoftRestart(hint) and logs its
\* error as a warning.  SendSoftRestart: "IPC server is not connected" without
\* a connection, else n.ipcServer.Write(ctx, []byte(hint)) under a timeout
\* of one second, whose error is returned.
App_SoftRestart(f) ==
    /\ hintsLeft > 0
    /\ hintsLeft' = hintsLeft - 1
    /\ IF Classify(f) = "soft"
         THEN IF ~nConnected
                THEN /\ nRet' = "notConnected"
                     /\ UNCHANGED nOut
                ELSE \/ /\ nOut' = Append(nOut, Rel(rootDirectory, f))
                        /\ nRet' = "nil"
                     \/ /\ nRet' = "writeError"
                        /\ UNCHANGED nOut
         ELSE UNCHANGED <<nOut, nRet>>
    /\ OldUnchangedBySoft
    /\ UNCHANGED extVars
    /\ UNCHANGED <<panicked, newVars, ipcServer, everConnected, ipcOut, spc, spath, softRet,
                   nConnected, nEver, lastFile, changesLeft, connLeft>>

\* ListenAndServe of the notifier: the state of its connection changes, and
\* the callback passes "child process connected" or "child process
\* disconnected" with ChildProccessID: n.childProcessID.
Notifier_Connect ==
    /\ connLeft > 0
    /\ ~nConnected
    /\ nConnected' = TRUE
    /\ nEver' = TRUE
    /\ connLeft' = connLeft - 1
    /\ OldUnchangedBySoft
    /\ ipcNoteId' = nChildProcessID
    /\ UNCHANGED <<notId, currentChildProcessID, nChildProcessID, outId, outsLeft>>
    /\ UNCHANGED <<panicked, newVars, ipcServer, everConnected, ipcOut, spc, spath, softRet,
                   nOut, nRet, changesLeft, lastFile, hintsLeft>>

Notifier_Disconnect ==
    /\ nConnected
    /\ nConnected' = FALSE
    /\ OldUnchangedBySoft
    /\ ipcNoteId' = nChildProcessID
    /\ UNCHANGED <<notId, currentChildProcessID, nChildProcessID, outId, outsLeft>>
    /\ UNCHANGED <<panicked, newVars, ipcServer, everConnected, ipcOut, spc, spath, softRet,
                   nEver, nOut, nRet, changesLeft, connLeft, lastFile, hintsLeft>>

\* ------------------------------------------------------- specifications
GoStep(g) ==
    \/ Go_InnerWait(g)
    \/ Go_InnerAdd(g)
    \/ Go_PrepareFails(g)
    \/ Go_CheckCmd(g)
    \/ Go_Spawn(g)
    \/ Go_SpawnFails(g)
    \/ Go_Waited(g)
    \/ Go_Exited(g)
    \/ Go_CheckExpecting(g)
    \/ Go_Restart(g)
    \/ Go_BackoffLoad(g)
    \/ Go_BackoffStore(g)

CallerStep(c) ==
    \/ HardRestart_Dropped(c)
    \/ HardRestart_Call(c)
    \/ HardRestart_Get(c)
    \/ Close_Call(c)
    \/ closeChild_Term(c)
    \/ closeChild_Closed(c)
    \/ closeChild_Timeout(c)
    \/ HardRestart_Restart(c)

Next ==
    \/ Start_Call
    \/ Start_Return
    \/ \E g \in Gids : GoStep(g)
    \/ \E c \in Callers : CallerStep(c)
    \/ \E p \in Gids : ChildCrash(p)
    \/ \E p \in Gids : ChildExitOnTerm(p)

Spec == Init /\ [][Next]_vars

\* Every step the supervisor can take on its own is eventually taken: a
\* goroutine that can run does run, a timer that was set fires, and a child
\* that does not ignore SIGTERM exits once it got it.  New calls, crashes and
\* failing start steps are up to the environment.
ProgramStep ==
    \/ Start_Return
    \/ \E g \in Gids :
         \/ Go_InnerWait(g)
         \/ Go_InnerAdd(g)
         \/ Go_CheckCmd(g)
         \/ Go_Spawn(g)
         \/ Go_Waited(g)
         \/ Go_Exited(g)
         \/ Go_CheckExpecting(g)
         \/ Go_Restart(g)
         \/ Go_BackoffLoad(g)
         \/ Go_BackoffStore(g)
    \/ \E c \in Callers :
         \/ HardRestart_Get(c)
         \/ closeChild_Term(c)
         \/ closeChild_Closed(c)
         \/ closeChild_Timeout(c)
         \/ HardRestart_Restart(c)
    \/ \E p \in Gids : ChildExitOnTerm(p)

FairSpec == Spec /\ WF_vars(ProgramStep)

\* The crash loop alone: Start, then unexpected exits and nothing else.
InitLoop ==
    /\ InitFields
    /\ ignoresTerm \in BOOLEAN
    /\ crashesLeft = MaxCrashLoop
    /\ hardLeft = 0
    /\ closeLeft = 0
    /\ failsLeft = 0
    /\ eventsLeft = MaxCrashLoop
    /\ InitCtxFields
    /\ spawnOk = TRUE
    /\ prestartOk = TRUE
    /\ stopsLeft = 0
    /\ envLeft = 0
    /\ badTask = 1
    /\ forks = FALSE
    /\ changesLeft = 0
    /\ connLeft = 0
    /\ hintsLeft = 0
    /\ msgsLeft = 0
    /\ outsLeft = 0
    /\ cw = NoRules
    /\ cfile = NoPath
    /\ cevLeft = 0

\* The supervisor while no kill timeout has elapsed: the steps of Next but
\* for the time.After(r.killTimeout) case of closeChild's select.
CallerStepInTime(c) ==
    \/ HardRestart_Dropped(c)
    \/ HardRestart_Call(c)
    \/ HardRestart_Get(c)
    \/ Close_Call(c)
    \/ closeChild_Term(c)
    \/ closeChild_Closed(c)
    \/ HardRestart_Restart(c)

NextInTime ==
    \/ Start_Call
    \/ Start_Return
    \/ \E g \in Gids : GoStep(g)
    \/ \E c \in Callers : CallerStepInTime(c)
    \/ \E p \in Gids : ChildCrash(p)
    \/ \E p \in Gids : ChildExitOnTerm(p)

ProgramStepInTime ==
    \/ Start_Return
    \/ \E g \in Gids :
         \/ Go_InnerWait(g)
         \/ Go_InnerAdd(g)
         \/ Go_CheckCmd(g)
         \/ Go_Spawn(g)
         \/ Go_Waited(g)
         \/ Go_Exited(g)
         \/ Go_CheckExpecting(g)
         \/ Go_Restart(g)
         \/ Go_BackoffLoad(g)
         \/ Go_BackoffStore(g)
    \/ \E c \in Callers :
         \/ HardRestart_Get(c)
         \/ closeChild_Term(c)
         \/ closeChild_Closed(c)
         \/ HardRestart_Restart(c)
    \/ \E p \in Gids : ChildExitOnTerm(p)

FairInTimeSpec == Init /\ [][NextInTime]_vars /\ WF_vars(ProgramStepInTime)

\* The supervisor whose last call from outside is Close(): the steps of Next,
\* HardRestart being called only as long as Close() was not.
CallerStepCloseLast(c) ==
    \/ closeLeft = MaxCloses /\ HardRestart_Dropped(c)
    \/ closeLeft = MaxCloses /\ HardRestart_Call(c)
    \/ HardRestart_Get(c)
    \/ Close_Call(c)
    \/ closeChild_Term(c)
    \/ closeChild_Closed(c)
    \/ closeChild_Timeout(c)
    \/ HardRestart_Restart(c)

NextCloseLast ==
    \/ Start_Call
    \/ Start_Return
    \/ \E g \in Gids : GoStep(g)
    \/ \E c \in Callers : CallerStepCloseLast(c)
    \/ \E p \in Gids : ChildCrash(p)
    \/ \E p \in Gids : ChildExitOnTerm(p)

FairCloseLastSpec == Init /\ [][NextCloseLast]_vars /\ WF_vars(ProgramStep)

NextLoop ==
    \/ Start_Call
    \/ \E g \in Gids :
         \/ Go_InnerWait(g)
         \/ Go_InnerAdd(g)
         \/ Go_CheckCmd(g)
         \/ Go_Spawn(g)
         \/ Go_Waited(g)
         \/ Go_Exited(g)
         \/ Go_CheckExpecting(g)
         \/ Go_Restart(g)
         \/ Go_BackoffLoad(g)
         \/ Go_BackoffStore(g)
    \/ \E p \in Gids : ChildCrash(p)

LoopSpec == InitLoop /\ [][NextLoop]_vars

\* SoftRestart and SendSoftRestart next to a supervisor whose child crashes
\* and whose start may fail; no HardRestart and no Close.
InitSoft ==
    /\ InitFields
    /\ ignoresTerm = FALSE
    /\ crashesLeft = 1
    /\ hardLeft = 0
    /\ closeLeft = 0
    /\ failsLeft = 1
    /\ eventsLeft = 1
    /\ InitCtxFields
    /\ spawnOk = TRUE
    /\ prestartOk = TRUE
    /\ stopsLeft = 0
    /\ envLeft = 0
    /\ badTask = 1
    /\ forks = FALSE
    /\ changesLeft = MaxChanges
    /\ connLeft = MaxConnects
    /\ hintsLeft = MaxChanges
    /\ msgsLeft = 0
    /\ outsLeft = 0
    /\ cw = NoRules
    /\ cfile = NoPath
    /\ cevLeft = 0

NextSoft ==
    \/ Start_Call
    \/ \E g \in Gids : GoStep(g)
    \/ \E p \in Gids : ChildCrash(p)
    \/ \E f \in ChangedFiles : File_Changed(f)
    \/ SoftRestart_Load
    \/ SoftRestart_Write
    \/ Ipc_Connect
    \/ Ipc_Disconnect
    \/ Reader_Read
    \/ Reader_Handle
    \/ \E f \in ChangedFiles : App_SoftRestart(f)
    \/ Notifier_Connect
    \/ Notifier_Disconnect

SoftSpec == InitSoft /\ [][NextSoft]_vars

\* The reader of the IPC server next to SoftRestart and a child that writes
\* to its connection; the child may crash and a start may fail.
MsgTypes == {"reloaded", "ping", "startup", "unknown"}

InitAck ==
    /\ InitFields
    /\ ignoresTerm = FALSE
    /\ crashesLeft = 1
    /\ hardLeft = 0
    /\ closeLeft = 0
    /\ failsLeft = 1
    /\ eventsLeft = 1
    /\ InitCtxFields
    /\ spawnOk = TRUE
    /\ prestartOk = TRUE
    /\ stopsLeft = 0
    /\ envLeft = 0
    /\ badTask = 1
    /\ forks = FALSE
    /\ changesLeft = 1
    /\ connLeft = MaxConnects
    /\ hintsLeft = 0
    /\ msgsLeft = MaxMsgs
    /\ outsLeft = 0
    /\ cw = NoRules
    /\ cfile = NoPath
    /\ cevLeft = 0

NextAck ==
    \/ Start_Call
    \/ \E g \in Gids : GoStep(g)
    \/ \E p \in Gids : ChildCrash(p)
    \/ \E f \in ChangedFiles : File_Changed(f)
    \/ SoftRestart_Load
    \/ SoftRestart_Write
    \/ Ipc_Connect
    \/ Ipc_Disconnect
    \/ \E m \in MsgTypes : Child_Sends(m)
    \/ Reader_Read
    \/ Reader_Handle

AckSpec == InitAck /\ [][NextAck]_vars

\* Start(ctx, ...) and Stop() under the loop of main.
InitCtx ==
    /\ InitFields
    /\ ignoresTerm \in BOOLEAN
    /\ crashesLeft = 0
    /\ hardLeft = 0
    /\ closeLeft = 0
    /\ failsLeft = 0
    /\ eventsLeft = 0
    /\ InitCtxFields
    /\ spawnOk \in BOOLEAN
    /\ prestartOk \in BOOLEAN
    /\ stopsLeft = MaxStops
    /\ envLeft = MaxEnvChanges
    /\ badTask \in Tasks
    /\ forks \in BOOLEAN
    /\ changesLeft = 0
    /\ connLeft = 0
    /\ hintsLeft = 0
    /\ msgsLeft = 0
    /\ outsLeft = 0
    /\ cw = NoRules
    /\ cfile = NoPath
    /\ cevLeft = 0

NextCtx ==
    \/ Driver_New
    \/ StartCtx_Begin
    \/ StartCtx_Spawn
    \/ StartCtx_Notify
    \/ StartCtx_Select
    \/ StartCtx_RecvExit
    \/ Exit_Wait
    \/ Retry_Again
    \/ Retry_GiveUp
    \/ \E s \in Stoppers :
         \/ Stop_Call(s)
         \/ Stop_Lock(s)
         \/ Stop_Set(s)
         \/ StopGo_Lock(s)
         \/ Stop_RecvClosed(s)
         \/ Stop_Timeout(s)
    \/ Child_Exits
    \/ Child_ExitsOnTerm
    \/ Desc_ExitsOnTerm
    \/ Desc_Exits
    \/ Cmd_CtxKill
    \/ Ctx_Cancel
    \/ Env_Spawn
    \/ Env_Prestart

CtxSpec == InitCtx /\ [][NextCtx]_vars

\* A goroutine that can run does run, a timer that was set fires, a child that
\* does not ignore SIGTERM exits once it got it, a killed child dies.  Stop
\* calls, the cancelling of the context from outside, the child's own exit and
\* the changes of the system are up to the environment.
CtxProgramStep ==
    \/ Driver_New
    \/ StartCtx_Begin
    \/ StartCtx_Spawn
    \/ StartCtx_Notify
    \/ StartCtx_Select
    \/ StartCtx_RecvExit
    \/ Exit_Wait
    \/ Retry_Again
    \/ Retry_GiveUp
    \/ \E s \in Stoppers :
         \/ Stop_Lock(s)
         \/ Stop_Set(s)
         \/ StopGo_Lock(s)
         \/ Stop_RecvClosed(s)
         \/ Stop_Timeout(s)
    \/ Child_ExitsOnTerm
    \/ Desc_ExitsOnTerm
    \/ Cmd_CtxKill

FairCtxSpec == CtxSpec /\ WF_vars(CtxProgramStep)

\* Start(ctx, ...) and Stop() under the loop of main, next to the console
\* that relays the output of the child and the notifier a client connects to.
InitRunId ==
    /\ InitFields
    /\ ignoresTerm = FALSE
    /\ crashesLeft = 0
    /\ hardLeft = 0
    /\ closeLeft = 0
    /\ failsLeft = 0
    /\ eventsLeft = 0
    /\ InitCtxFields
    /\ spawnOk = TRUE
    /\ prestartOk = TRUE
    /\ stopsLeft = 1
    /\ envLeft = 0
    /\ badTask = 1
    /\ forks = FALSE
    /\ changesLeft = 0
    /\ connLeft = MaxConnects
    /\ hintsLeft = 0
    /\ msgsLeft = 0
    /\ outsLeft = MaxOutputs
    /\ cw = NoRules
    /\ cfile = NoPath
    /\ cevLeft = 0

NextRunId ==
    \/ Driver_New
    \/ StartCtx_Begin
    \/ StartCtx_Spawn
    \/ StartCtx_Notify
    \/ StartCtx_Select
    \/ StartCtx_RecvExit
    \/ Exit_Wait
    \/ Retry_Again
    \/ Retry_GiveUp
    \/ \E s \in Stoppers :
         \/ Stop_Call(s)
         \/ Stop_Lock(s)
         \/ Stop_Set(s)
         \/ StopGo_Lock(s)
         \/ Stop_RecvClosed(s)
         \/ Stop_Timeout(s)
    \/ Child_Exits
    \/ Child_ExitsOnTerm
    \/ Console_Write
    \/ Notifier_Connect
    \/ Notifier_Disconnect

RunIdSpec == InitRunId /\ [][NextRunId]_vars

\* The steps of NextRunId the program takes on its own: a goroutine that can
\* run does run, a timer that was set fires, the child exits once it got
\* SIGTERM.  Stop calls, the child's own exit, its output and the connections
\* of its client are up to the environment.
RunIdProgramStep ==
    \/ Driver_New
    \/ StartCtx_Begin
    \/ StartCtx_Spawn
    \/ StartCtx_Notify
    \/ StartCtx_Select
    \/ StartCtx_RecvExit
    \/ Exit_Wait
    \/ Retry_Again
    \/ Retry_GiveUp
    \/ \E s \in Stoppers :
         \/ Stop_Lock(s)
         \/ Stop_Set(s)
         \/ StopGo_Lock(s)
         \/ Stop_RecvClosed(s)
         \/ Stop_Timeout(s)
    \/ Child_ExitsOnTerm

FairRunIdSpec == RunIdSpec /\ WF_vars(RunIdProgramStep)

\* The watcher with one of RuleSets, a file of WatchedFiles that changes
\* and the loop of ProcessRestartEvents.
InitClassify ==
    /\ InitFields
    /\ ignoresTerm = FALSE
    /\ crashesLeft = 0
    /\ hardLeft = 0
    /\ closeLeft = 0
    /\ failsLeft = 0
    /\ eventsLeft = 0
    /\ InitCtxFields
    /\ spawnOk = TRUE
    /\ prestartOk = TRUE
    /\ stopsLeft = 0
    /\ envLeft = 0
    /\ badTask = 1
    /\ forks = FALSE
    /\ changesLeft = 0
    /\ connLeft = 0
    /\ hintsLeft = 0
    /\ msgsLeft = 0
    /\ outsLeft = 0
    /\ cw \in RuleSets
    /\ cfile \in WatchedFiles
    /\ cevLeft = MaxFileEvents

NextClassify ==
    \/ Watcher_Event
    \/ Callback_Send
    \/ Loop_Handle
    \/ Loop_TaskDone

ClassifySpec == InitClassify /\ [][NextClassify]_vars

\* ---------------------------------------------------------------------
\* App.Notify: a.db.Notify(n); a.consoleWriter.Notify(n); a.proxy.Notify(n);
\* a.webui.Notify(n); a.notifier.Notify(n), each call made by the goroutine
\* of the producer and the next one made when the call before has returned.

\* A producer calls App.Notify with its next notification
App_Notify(p) ==
    /\ sinkAt[p] = 0
    /\ emitted[p] < MaxNotes
    /\ emitted' = [emitted EXCEPT ![p] = @ + 1]
    /\ sinkAt' = [sinkAt EXCEPT ![p] = 1]
    /\ UNCHANGED <<inNotify, got>>
    /\ UNCHANGED <<oldVars, ignoresTerm, newVars, ipcServer, softRest, notFan>>

\* A return that passes over the sink that comes next
Sink_Return_SkipsNext(p) ==
    /\ inNotify[p]
    /\ inNotify' = [inNotify EXCEPT ![p] = FALSE]
    /\ sinkAt' = [sinkAt EXCEPT ![p] = IF @ + 2 > Len(Sinks) THEN 0 ELSE @ + 2]
    /\ UNCHANGED <<emitted, got>>
    /\ UNCHANGED <<oldVars, ignoresTerm, newVars, ipcServer, softRest, notFan>>

\* The call of the Notify of the sink the producer is at: the sink has the
\* notification
Sink_Notify(p) ==
    /\ sinkAt[p] > 0
    /\ ~inNotify[p]
    /\ got' = [got EXCEPT ![sinkAt[p]] = Append(@, <<p, emitted[p]>>)]
    /\ inNotify' = [inNotify EXCEPT ![p] = TRUE]
    /\ UNCHANGED <<emitted, sinkAt>>
    /\ UNCHANGED <<oldVars, ignoresTerm, newVars, ipcServer, softRest, notFan>>

\* The Notify of the sink returns: the producer goes on to the next sink, or
\* App.Notify returns after the last one
Sink_Return(p) ==
    /\ inNotify[p]
    /\ inNotify' = [inNotify EXCEPT ![p] = FALSE]
    /\ sinkAt' = [sinkAt EXCEPT ![p] = IF @ = Len(Sinks) THEN 0 ELSE @ + 1]
    /\ UNCHANGED <<emitted, got>>
    /\ UNCHANGED <<oldVars, ignoresTerm, newVars, ipcServer, softRest, notFan>>

InitFan ==
    /\ InitFields
    /\ ignoresTerm = FALSE
    /\ crashesLeft = 0
    /\ hardLeft = 0
    /\ closeLeft = 0
    /\ failsLeft = 0
    /\ eventsLeft = 0
    /\ InitCtxFields
    /\ spawnOk = TRUE
    /\ prestartOk = TRUE
    /\ stopsLeft = 0
    /\ envLeft = 0
    /\ badTask = 1
    /\ forks = FALSE
    /\ changesLeft = 0
    /\ connLeft = 0
    /\ hintsLeft = 0
    /\ msgsLeft = 0
    /\ outsLeft = 0
    /\ cw = NoRules
    /\ cfile = NoPath
    /\ cevLeft = 0

NextFan ==
    \/ \E p \in Producers : App_Notify(p)
    \/ \E p \in Producers : Sink_Notify(p)
    \/ \E p \in Producers : Sink_Return(p)

FanSpec == InitFan /\ [][NextFan]_vars

\* ---------------------------------------------------------------------
\* streams.consoleListeners: a slice that AddEventSink and RemoveEventSink
\* change and notifyEventListeners ranges over, with no lock.

\* The listeners of the slice
Registered == {backing[k] : k \in 1..nListeners}

\* The capacity append gives a slice that is full
NewCap(c) == IF c = 0 THEN 1 ELSE 2 * c

\* append(s.consoleListeners, sink): in the slot after the last one when the
\* array has room, else in a new array with the old elements copied; a range
\* statement under way keeps the old array
AddEventSink(l) ==
    /\ sinkOps < MaxSinkOps
    /\ l \notin Registered
    /\ sinkOps' = sinkOps + 1
    /\ nListeners' = nListeners + 1
    /\ IF nListeners < Len(backing)
         THEN /\ backing' = [backing EXCEPT ![nListeners + 1] = l]
              /\ barr' = IF bshared THEN backing' ELSE barr
              /\ UNCHANGED bshared
         ELSE /\ backing' = [k \in 1..NewCap(Len(backing)) |->
                                IF k <= nListeners THEN backing[k]
                                ELSE IF k = nListeners + 1 THEN l ELSE "nil"]
              /\ bshared' = FALSE
              /\ UNCHANGED barr
    /\ stable' = stable \ {l}
    /\ UNCHANGED <<bpc, blen, bidx, recv, casts>>
    /\ UNCHANGED <<oldVars, ignoresTerm, newVars, ipcServer, softRest, notLsn>>

\* append(s[:i], s[i+1:]...): the elements after the one removed move one
\* slot down in the same array, whose last slot keeps its value
RemoveEventSink(l) ==
    /\ sinkOps < MaxSinkOps
    /\ l \in Registered
    /\ sinkOps' = sinkOps + 1
    /\ LET i == CHOOSE k \in 1..nListeners : backing[k] = l
       IN  backing' = [k \in 1..Len(backing) |->
                          IF k >= i /\ k < nListeners THEN backing[k + 1] ELSE backing[k]]
    /\ nListeners' = nListeners - 1
    /\ barr' = IF bshared THEN backing' ELSE barr
    /\ stable' = stable \ {l}
    /\ UNCHANGED <<bpc, bshared, blen, bidx, recv, casts>>
    /\ UNCHANGED <<oldVars, ignoresTerm, newVars, ipcServer, softRest, notLsn>>

\* notifyEventListeners(event): the range statement takes the slice
Broadcast_Begin ==
    /\ bpc = "idle"
    /\ casts < MaxCasts
    /\ casts' = casts + 1
    /\ bpc' = "range"
    /\ barr' = backing
    /\ bshared' = TRUE
    /\ blen' = nListeners
    /\ bidx' = 1
    /\ recv' = [l \in Listeners |-> 0]
    /\ stable' = Registered
    /\ UNCHANGED <<backing, nListeners, sinkOps>>
    /\ UNCHANGED <<oldVars, ignoresTerm, newVars, ipcServer, softRest, notLsn>>

\* listener <- event: the listener at the place of the range statement
\* receives the event
Broadcast_Send ==
    /\ bpc = "range"
    /\ bidx <= blen
    /\ recv' = [recv EXCEPT ![barr[bidx]] = @ + 1]
    /\ bidx' = bidx + 1
    /\ UNCHANGED <<backing, nListeners, bpc, barr, bshared, blen, stable, sinkOps, casts>>
    /\ UNCHANGED <<oldVars, ignoresTerm, newVars, ipcServer, softRest, notLsn>>

\* The range statement is at its end: notifyEventListeners returns
Broadcast_End ==
    /\ bpc = "range"
    /\ bidx > blen
    /\ bpc' = "idle"
    /\ bshared' = FALSE
    /\ UNCHANGED <<backing, nListeners, barr, blen, bidx, recv, stable, sinkOps, casts>>
    /\ UNCHANGED <<oldVars, ignoresTerm, newVars, ipcServer, softRest, notLsn>>

InitListeners == InitFan

NextListeners ==
    \/ \E l \in Listeners : AddEventSink(l)
    \/ \E l \in Listeners : RemoveEventSink(l)
    \/ Broadcast_Begin
    \/ Broadcast_Send
    \/ Broadcast_End

ListenerSpec == InitListeners /\ [][NextListeners]_vars

\* ---------------------------------------------------------------------
\* outOfBandTask.Run(childProcessID, callbackFn)

MaxRuns == 4

\* A notification of Run, with the state of the command when it was passed
\* to callbackFn
Note(type) == [type |-> type, task |-> otask]

\* Run is called: callbackFn gets the OOBTaskStartup notification, then the
\* command is built
Oob_Run ==
    /\ opc = "idle"
    /\ oruns < MaxRuns
    /\ oruns' = oruns + 1
    /\ otask' = "notStarted"
    /\ oexit' = "none"
    /\ obuf' = [stdout |-> FALSE, stderr |-> FALSE]
    /\ oret' = "none"
    /\ onotes' = <<[type |-> "OOBTaskStartup", task |-> "notStarted"]>>
    /\ opc' = "start"
    /\ UNCHANGED <<oldVars, ignoresTerm, newVars, ipcServer, softRest, notOob>>

\* cmd.Start(): the command runs, or Run returns the error
Oob_Start ==
    /\ opc = "start"
    /\ \/ /\ otask' = "running"
          /\ opc' = "wait"
          /\ UNCHANGED oret
       \/ /\ otask' = "failedToStart"
          /\ oret' = "error"
          /\ opc' = "idle"
    /\ UNCHANGED <<oexit, obuf, onotes, oruns>>
    /\ UNCHANGED <<oldVars, ignoresTerm, newVars, ipcServer, softRest, notOob>>

\* A Wait after which a command that failed is reported at once, its output
\* left in the buffers
Oob_Wait_FailureSkipsOutput ==
    /\ opc = "wait"
    /\ \E code \in {"ok", "fail"} :
          /\ oexit' = code
          /\ opc' = IF code = "fail" THEN "return" ELSE "stdout"
    /\ otask' = "exited"
    /\ UNCHANGED <<obuf, onotes, oret, oruns>>
    /\ UNCHANGED <<oldVars, ignoresTerm, newVars, ipcServer, softRest, notOob>>

\* The running command writes to its stdout or stderr: cmd.Stdout and
\* cmd.Stderr are stdoutBuf and stderrBuf
Task_Writes(stream) ==
    /\ otask = "running"
    /\ ~obuf[stream]
    /\ obuf' = [obuf EXCEPT ![stream] = TRUE]
    /\ UNCHANGED <<opc, otask, oexit, onotes, oret, oruns>>
    /\ UNCHANGED <<oldVars, ignoresTerm, newVars, ipcServer, softRest, notOob>>

\* err = cmd.Wait(): the command has exited, with or without success
Oob_Wait ==
    /\ opc = "wait"
    /\ \E code \in {"ok", "fail"} : oexit' = code
    /\ otask' = "exited"
    /\ opc' = "stdout"
    /\ UNCHANGED <<obuf, onotes, oret, oruns>>
    /\ UNCHANGED <<oldVars, ignoresTerm, newVars, ipcServer, softRest, notOob>>

\* if stdoutBuf.Len() > 0 { callbackFn(OOBTaskStdOut) }
Oob_Stdout ==
    /\ opc = "stdout"
    /\ onotes' = IF obuf.stdout THEN Append(onotes, Note("OOBTaskStdOut")) ELSE onotes
    /\ opc' = "stderr"
    /\ UNCHANGED <<otask, oexit, obuf, oret, oruns>>
    /\ UNCHANGED <<oldVars, ignoresTerm, newVars, ipcServer, softRest, notOob>>

\* if stderrBuf.Len() > 0 { callbackFn(OOBTaskStdErr) }
Oob_Stderr ==
    /\ opc = "stderr"
    /\ onotes' = IF obuf.stderr THEN Append(onotes, Note("OOBTaskStdErr")) ELSE onotes
    /\ opc' = "return"
    /\ UNCHANGED <<otask, oexit, obuf, oret, oruns>>
    /\ UNCHANGED <<oldVars, ignoresTerm, newVars, ipcServer, softRest, notOob>>

\* if err != nil { return fmt.Errorf(...) }; return nil
Oob_Return ==
    /\ opc = "return"
    /\ oret' = IF oexit = "fail" THEN "error" ELSE "nil"
    /\ opc' = "idle"
    /\ UNCHANGED <<otask, oexit, obuf, onotes, oruns>>
    /\ UNCHANGED <<oldVars, ignoresTerm, newVars, ipcServer, softRest, notOob>>

InitOob == InitFan

NextOob ==
    \/ Oob_Run
    \/ Oob_Start
    \/ \E stream \in {"stdout", "stderr"} : Task_Writes(stream)
    \/ Oob_Wait
    \/ Oob_Stdout
    \/ Oob_Stderr
    \/ Oob_Return

OobSpec == InitOob /\ [][NextOob]_vars


\* ------------------------------------------------------------ one childProcess, several callers
\* Start and Stop of one childProcess called from several goroutines.
\* A caller of Start is at "lock" (childLock.Lock()), "spawn" (cmd.Start()),
\* "select" (the select over termChild, killChild and the context) or
\* "waitExit" (<-exitStatus).  A child is a number; it is alive while in kalive.
K_TAIL == <<oldVars, ignoresTerm, newVars, ipcServer, softRest, notLk>>

KStart_Call(c) ==
    /\ apc[c] = "idle"
    /\ kstarts < MaxStarts
    /\ apc' = [apc EXCEPT ![c] = "lock"]
    /\ kstarts' = kstarts + 1
    /\ UNCHANGED <<kstate, klock, kcloseLock, ares, achild, egs, kalive, nkids, kctx,
                   kspc, ksgo, ksres, kissued, kstops>>
    /\ UNCHANGED K_TAIL

\* Start without childLock.Lock(): the state check and the prestart tasks run
\* whoever holds the lock
KStart_Lock_Unlocked(c) ==
    /\ apc[c] = "lock"
    /\ \/ /\ kstate # "Stopped"
          /\ ares' = [ares EXCEPT ![c] = "running"]
          /\ apc' = [apc EXCEPT ![c] = "idle"]
          /\ UNCHANGED <<kstate, klock>>
       \/ /\ kstate = "Stopped"
          /\ kstate' = "Starting"
          /\ apc' = [apc EXCEPT ![c] = "spawn"]
          /\ UNCHANGED <<ares, klock>>
    /\ UNCHANGED <<kcloseLock, achild, egs, kalive, nkids, kctx,
                   kspc, ksgo, ksres, kissued, kstarts, kstops>>
    /\ UNCHANGED K_TAIL

\* childLock.Lock(); a state other than Stopped returns "process is already
\* running", a failing prestart task returns its error (both unlock again);
\* otherwise the state becomes Starting and the lock stays held
KStart_Lock(c) ==
    /\ apc[c] = "lock"
    /\ klock = "free"
    /\ \/ /\ kstate # "Stopped"
          /\ ares' = [ares EXCEPT ![c] = "running"]
          /\ apc' = [apc EXCEPT ![c] = "idle"]
          /\ UNCHANGED <<kstate, klock>>
       \/ /\ kstate = "Stopped"
          /\ ares' = [ares EXCEPT ![c] = "prestart"]
          /\ apc' = [apc EXCEPT ![c] = "idle"]
          /\ UNCHANGED <<kstate, klock>>
       \/ /\ kstate = "Stopped"
          /\ kstate' = "Starting"
          /\ klock' = c
          /\ apc' = [apc EXCEPT ![c] = "spawn"]
          /\ UNCHANGED ares
    /\ UNCHANGED <<kcloseLock, achild, egs, kalive, nkids, kctx,
                   kspc, ksgo, ksres, kissued, kstarts, kstops>>
    /\ UNCHANGED K_TAIL

\* cmd.Start(): an error (always, once the context is cancelled) returns with
\* the state left at Starting; otherwise the child lives, the state is Started
\* and the goroutine of cmd.Wait() runs
KStart_Spawn(c) ==
    /\ apc[c] = "spawn"
    /\ \/ /\ ares' = [ares EXCEPT ![c] = "spawn"]
          /\ apc' = [apc EXCEPT ![c] = "idle"]
          /\ klock' = "free"
          /\ UNCHANGED <<kstate, achild, egs, kalive, nkids>>
       \/ /\ ~kctx
          /\ nkids' = nkids + 1
          /\ kalive' = kalive \cup {nkids + 1}
          /\ achild' = [achild EXCEPT ![c] = nkids + 1]
          /\ egs' = [egs EXCEPT ![c] = "wait"]
          /\ kstate' = "Started"
          /\ apc' = [apc EXCEPT ![c] = "select"]
          /\ UNCHANGED <<ares, klock>>
    /\ UNCHANGED <<kcloseLock, kctx, kspc, ksgo, ksres, kissued, kstarts, kstops>>
    /\ UNCHANGED K_TAIL

\* A child exits, by itself or on the signal it was sent
KChild_Exits(k) ==
    /\ k \in kalive
    /\ kalive' = kalive \ {k}
    /\ UNCHANGED <<kstate, klock, kcloseLock, apc, ares, achild, egs, nkids, kctx,
                   kspc, ksgo, ksres, kissued, kstarts, kstops>>
    /\ UNCHANGED K_TAIL

\* cmd.Wait() returns once the child is gone; the goroutine goes on to send
\* the exit status
KExit_Wait(c) ==
    /\ egs[c] = "wait"
    /\ achild[c] \notin kalive
    /\ egs' = [egs EXCEPT ![c] = "send"]
    /\ UNCHANGED <<kstate, klock, kcloseLock, apc, ares, achild, kalive, nkids, kctx,
                   kspc, ksgo, ksres, kissued, kstarts, kstops>>
    /\ UNCHANGED K_TAIL

\* case <-c.termChild: the SIGTERM to the process group fails when the child
\* was already waited for, and Start returns that error; otherwise it goes on
\* to wait for the exit status
KStart_RecvTerm(c, s) ==
    /\ apc[c] = "select"
    /\ kspc[s] = "sendTerm"
    /\ kspc' = [kspc EXCEPT ![s] = "select"]
    /\ IF egs[c] = "send"
       THEN /\ ares' = [ares EXCEPT ![c] = "kill"]
            /\ apc' = [apc EXCEPT ![c] = "idle"]
            /\ klock' = "free"
       ELSE /\ apc' = [apc EXCEPT ![c] = "waitExit"]
            /\ UNCHANGED <<ares, klock>>
    /\ UNCHANGED <<kstate, kcloseLock, achild, egs, kalive, nkids, kctx,
                   ksgo, ksres, kissued, kstarts, kstops>>
    /\ UNCHANGED K_TAIL

\* case <-c.killChild: cancelChildContext() kills the child; the Stop that
\* sent returns nil
KStart_RecvKill(c, s) ==
    /\ apc[c] = "select"
    /\ kspc[s] = "sendKill"
    /\ kspc' = [kspc EXCEPT ![s] = "idle"]
    /\ ksres' = [ksres EXCEPT ![s] = "nil"]
    /\ kcloseLock' = "free"
    /\ kalive' = kalive \ {achild[c]}
    /\ apc' = [apc EXCEPT ![c] = "waitExit"]
    /\ UNCHANGED <<kstate, klock, ares, achild, egs, nkids, kctx,
                   ksgo, kissued, kstarts, kstops>>
    /\ UNCHANGED K_TAIL

\* The context of the Start calls is cancelled: exec.CommandContext kills the
\* children started under it
KCtx_Cancel ==
    /\ ~kctx
    /\ kctx' = TRUE
    /\ kalive' = {}
    /\ UNCHANGED <<kstate, klock, kcloseLock, apc, ares, achild, egs, nkids,
                   kspc, ksgo, ksres, kissued, kstarts, kstops>>
    /\ UNCHANGED K_TAIL

\* case <-childContext.Done()
KStart_CtxDone(c) ==
    /\ apc[c] = "select"
    /\ kctx
    /\ apc' = [apc EXCEPT ![c] = "waitExit"]
    /\ UNCHANGED <<kstate, klock, kcloseLock, ares, achild, egs, kalive, nkids, kctx,
                   kspc, ksgo, ksres, kissued, kstarts, kstops>>
    /\ UNCHANGED K_TAIL

\* s := <-exitStatus; the state becomes Stopped, Start returns nil and the
\* deferred Unlock releases the child lock
KStart_RecvExit(c) ==
    /\ apc[c] = "waitExit"
    /\ egs[c] = "send"
    /\ egs' = [egs EXCEPT ![c] = "none"]
    /\ achild' = [achild EXCEPT ![c] = 0]
    /\ kstate' = "Stopped"
    /\ klock' = "free"
    /\ apc' = [apc EXCEPT ![c] = "idle"]
    /\ ares' = [ares EXCEPT ![c] = "nil"]
    /\ UNCHANGED <<kcloseLock, kalive, nkids, kctx, kspc, ksgo, ksres, kissued, kstarts, kstops>>
    /\ UNCHANGED K_TAIL

\* A goroutine calls Stop(); each caller calls once
KStop_Call(s) ==
    /\ kspc[s] = "idle"
    /\ ksres[s] = "none"
    /\ kspc' = [kspc EXCEPT ![s] = "lock"]
    /\ kstops' = kstops + 1
    /\ UNCHANGED <<kstate, klock, kcloseLock, apc, ares, achild, egs, kalive, nkids, kctx,
                   ksgo, ksres, kissued, kstarts>>
    /\ UNCHANGED K_TAIL

\* Stop without closeLock.Lock(): the state is read whoever holds the lock
KStop_Lock_Unlocked(s) ==
    /\ kspc[s] = "lock"
    /\ IF kstate # "Started"
       THEN /\ kspc' = [kspc EXCEPT ![s] = "idle"]
            /\ ksres' = [ksres EXCEPT ![s] = "notRunning"]
       ELSE /\ kspc' = [kspc EXCEPT ![s] = "set"]
            /\ UNCHANGED ksres
    /\ UNCHANGED <<kstate, klock, kcloseLock, apc, ares, achild, egs, kalive, nkids, kctx,
                   ksgo, kissued, kstarts, kstops>>
    /\ UNCHANGED K_TAIL

\* closeLock.Lock(); a state other than Started returns "process is not
\* running" (and unlocks again)
KStop_Lock(s) ==
    /\ kspc[s] = "lock"
    /\ kcloseLock = "free"
    /\ IF kstate # "Started"
       THEN /\ kspc' = [kspc EXCEPT ![s] = "idle"]
            /\ ksres' = [ksres EXCEPT ![s] = "notRunning"]
            /\ UNCHANGED kcloseLock
       ELSE /\ kspc' = [kspc EXCEPT ![s] = "set"]
            /\ kcloseLock' = s
            /\ UNCHANGED ksres
    /\ UNCHANGED <<kstate, klock, apc, ares, achild, egs, kalive, nkids, kctx,
                   ksgo, kissued, kstarts, kstops>>
    /\ UNCHANGED K_TAIL

\* c.state.Set(ProcessStateStopping); the goroutine that waits for the child
\* lock starts; Stop goes on to send on termChild
KStop_Set(s) ==
    /\ kspc[s] = "set"
    /\ kstate' = "Stopping"
    /\ ksgo' = [ksgo EXCEPT ![s] = "lock"]
    /\ kspc' = [kspc EXCEPT ![s] = "sendTerm"]
    /\ kissued' = kissued + 1
    /\ UNCHANGED <<klock, kcloseLock, apc, ares, achild, egs, kalive, nkids, kctx,
                   ksres, kstarts, kstops>>
    /\ UNCHANGED K_TAIL

\* The goroutine of Stop takes the child lock
KStopGo_Lock(s) ==
    /\ ksgo[s] = "lock"
    /\ klock = "free"
    /\ klock' = s
    /\ ksgo' = [ksgo EXCEPT ![s] = "send"]
    /\ UNCHANGED <<kstate, kcloseLock, apc, ares, achild, egs, kalive, nkids, kctx,
                   kspc, ksres, kissued, kstarts, kstops>>
    /\ UNCHANGED K_TAIL

\* case <-isChildClosed: the goroutine unlocks the child lock, Stop returns nil
KStop_RecvClosed(s) ==
    /\ kspc[s] = "select"
    /\ ksgo[s] = "send"
    /\ ksgo' = [ksgo EXCEPT ![s] = "none"]
    /\ klock' = "free"
    /\ kspc' = [kspc EXCEPT ![s] = "idle"]
    /\ ksres' = [ksres EXCEPT ![s] = "nil"]
    /\ kcloseLock' = "free"
    /\ UNCHANGED <<kstate, apc, ares, achild, egs, kalive, nkids, kctx,
                   kissued, kstarts, kstops>>
    /\ UNCHANGED K_TAIL

\* case <-time.After(c.killTimeout): Stop goes on to send on killChild
KStop_Timeout(s) ==
    /\ kspc[s] = "select"
    /\ kspc' = [kspc EXCEPT ![s] = "sendKill"]
    /\ UNCHANGED <<kstate, klock, kcloseLock, apc, ares, achild, egs, kalive, nkids, kctx,
                   ksgo, ksres, kissued, kstarts, kstops>>
    /\ UNCHANGED K_TAIL

InitStarts == InitFan

\* What Start, Stop, the children and the context do, whoever calls Start
KSteps ==
    \/ \E c \in Starters : KStart_Lock(c)
    \/ \E c \in Starters : KStart_Spawn(c)
    \/ \E k \in 1..MaxStarts : KChild_Exits(k)
    \/ \E c \in Starters : KExit_Wait(c)
    \/ \E c \in Starters, s \in StopCallers : KStart_RecvTerm(c, s)
    \/ KCtx_Cancel
    \/ \E c \in Starters : KStart_CtxDone(c)
    \/ \E c \in Starters : KStart_RecvExit(c)
    \/ \E s \in StopCallers : KStop_Call(s)
    \/ \E s \in StopCallers : KStop_Lock(s)
    \/ \E s \in StopCallers : KStop_Set(s)
    \/ \E s \in StopCallers : KStopGo_Lock(s)
    \/ \E s \in StopCallers : KStop_RecvClosed(s)
    \/ \E s \in StopCallers : KStop_Timeout(s)

\* Any goroutine may call Start at any time; the select of a later run may
\* take the kill request of a Stop of an earlier run
NextStarts ==
    \/ \E c \in Starters : KStart_Call(c)
    \/ \E c \in Starters, s \in StopCallers : KStart_RecvKill(c, s)
    \/ KSteps

StartsSpec == InitStarts /\ [][NextStarts]_vars

\* The supervisor's use: one goroutine calls Start, again after a failed
\* prestart task, and makes a new childProcess for the next run.  The one
\* select has left before a Stop can send on killChild, so nothing receives it
KStart_CallFirstRun ==
    /\ nkids = 0
    /\ KStart_Call("a1")

NextStops ==
    \/ KStart_CallFirstRun
    \/ KSteps

StopsSpec == InitStarts /\ [][NextStops]_vars

\* ------------------------------------------------------------ a sink with an event channel
\* The UI server: Notify sends on the unbuffered eventSink unless isClosed is
\* set, Close sets isClosed and closes the channel, and the goroutine started
\* by Start ranges over the channel.  A send on a closed channel, whether it
\* begins after the close or is blocked when the close happens, panics, and so
\* does a second close.
SK_TAIL == <<oldVars, ignoresTerm, newVars, ipcServer, softRest, notSk>>

\* Start(): a disabled server starts no goroutine
Sk_Start(enabled) ==
    /\ ~skStarted
    /\ skStarted' = TRUE
    /\ skReader' = IF enabled THEN "recv" ELSE "none"
    /\ UNCHANGED <<skIsClosed, skChan, skN, skC, skPanic, skDelivered, skDropped, skNotes, skCloses>>
    /\ UNCHANGED SK_TAIL

Sk_Notify_Call(n) ==
    /\ skStarted /\ ~skPanic
    /\ skN[n] = "idle"
    /\ skNotes < MaxSinkNotes
    /\ skN' = [skN EXCEPT ![n] = "check"]
    /\ skNotes' = skNotes + 1
    /\ UNCHANGED <<skStarted, skIsClosed, skChan, skReader, skC, skPanic, skDelivered, skDropped, skCloses>>
    /\ UNCHANGED SK_TAIL

\* if c.isClosed.Load() { return }
Sk_Notify_Check(n) ==
    /\ ~skPanic
    /\ skN[n] = "check"
    /\ IF skIsClosed
       THEN /\ skN' = [skN EXCEPT ![n] = "idle"]
            /\ skDropped' = skDropped + 1
       ELSE /\ skN' = [skN EXCEPT ![n] = "send"]
            /\ UNCHANGED skDropped
    /\ UNCHANGED <<skStarted, skIsClosed, skChan, skReader, skC, skPanic, skDelivered, skNotes, skCloses>>
    /\ UNCHANGED SK_TAIL

\* c.eventSink <- n, taken by the goroutine that ranges over the channel
Sk_Notify_Send(n) ==
    /\ ~skPanic
    /\ skN[n] = "send"
    /\ skChan = "open"
    /\ skReader = "recv"
    /\ skReader' = "handle"
    /\ skDelivered' = skDelivered + 1
    /\ skN' = [skN EXCEPT ![n] = "idle"]
    /\ UNCHANGED <<skStarted, skIsClosed, skChan, skC, skPanic, skDropped, skNotes, skCloses>>
    /\ UNCHANGED SK_TAIL

\* c.eventSink <- n on the closed channel: panic
Sk_Notify_SendOnClosed(n) ==
    /\ ~skPanic
    /\ skN[n] = "send"
    /\ skChan = "closed"
    /\ skN' = [skN EXCEPT ![n] = "panicked"]
    /\ skPanic' = TRUE
    /\ UNCHANGED <<skStarted, skIsClosed, skChan, skReader, skC, skDelivered, skDropped, skNotes, skCloses>>
    /\ UNCHANGED SK_TAIL

\* The body of the range loop: the event goes out to the browsers
Sk_Reader_Handle ==
    /\ ~skPanic
    /\ skReader = "handle"
    /\ skReader' = "recv"
    /\ UNCHANGED <<skStarted, skIsClosed, skChan, skN, skC, skPanic, skDelivered, skDropped, skNotes, skCloses>>
    /\ UNCHANGED SK_TAIL

\* The range loop ends on the closed channel
Sk_Reader_End ==
    /\ ~skPanic
    /\ skReader = "recv"
    /\ skChan = "closed"
    /\ skReader' = "ended"
    /\ UNCHANGED <<skStarted, skIsClosed, skChan, skN, skC, skPanic, skDelivered, skDropped, skNotes, skCloses>>
    /\ UNCHANGED SK_TAIL

Sk_Close_Call(k) ==
    /\ skStarted /\ ~skPanic
    /\ skC[k] = "idle"
    /\ skCloses < MaxSinkCloses
    /\ skC' = [skC EXCEPT ![k] = "check"]
    /\ skCloses' = skCloses + 1
    /\ UNCHANGED <<skStarted, skIsClosed, skChan, skReader, skN, skPanic, skDelivered, skDropped, skNotes>>
    /\ UNCHANGED SK_TAIL

\* if c.isClosed.Load() { return nil }
Sk_Close_Check(k) ==
    /\ ~skPanic
    /\ skC[k] = "check"
    /\ skC' = [skC EXCEPT ![k] = IF skIsClosed THEN "idle" ELSE "store"]
    /\ UNCHANGED <<skStarted, skIsClosed, skChan, skReader, skN, skPanic, skDelivered, skDropped, skNotes, skCloses>>
    /\ UNCHANGED SK_TAIL

\* c.isClosed.Store(true)
Sk_Close_Store(k) ==
    /\ ~skPanic
    /\ skC[k] = "store"
    /\ skIsClosed' = TRUE
    /\ skC' = [skC EXCEPT ![k] = "close"]
    /\ UNCHANGED <<skStarted, skChan, skReader, skN, skPanic, skDelivered, skDropped, skNotes, skCloses>>
    /\ UNCHANGED SK_TAIL

\* close(c.eventSink), then the servers are closed and Close returns; the
\* close of a closed channel panics
Sk_Close_Close(k) ==
    /\ ~skPanic
    /\ skC[k] = "close"
    /\ IF skChan = "closed"
       THEN /\ skC' = [skC EXCEPT ![k] = "panicked"]
            /\ skPanic' = TRUE
            /\ UNCHANGED skChan
       ELSE /\ skC' = [skC EXCEPT ![k] = "idle"]
            /\ skChan' = "closed"
            /\ UNCHANGED skPanic
    /\ UNCHANGED <<skStarted, skIsClosed, skReader, skN, skDelivered, skDropped, skNotes, skCloses>>
    /\ UNCHANGED SK_TAIL

InitSink == InitFan

NextSink ==
    \/ \E enabled \in BOOLEAN : Sk_Start(enabled)
    \/ \E n \in Notifiers : Sk_Notify_Call(n)
    \/ \E n \in Notifiers : Sk_Notify_Check(n)
    \/ \E n \in Notifiers : Sk_Notify_Send(n)
    \/ \E n \in Notifiers : Sk_Notify_SendOnClosed(n)
    \/ Sk_Reader_Handle
    \/ Sk_Reader_End
    \/ \E k \in Closers : Sk_Close_Call(k)
    \/ \E k \in Closers : Sk_Close_Check(k)
    \/ \E k \in Closers : Sk_Close_Store(k)
    \/ \E k \in Closers : Sk_Close_Close(k)

SinkSpec == InitSink /\ [][NextSink]_vars

\* ------------------------------------------------------------ properties
\* C1: at most one supervised child process runs at any time.
C1_OneChildAtATime == Cardinality(alive) <= 1

\* C6: an exit caused by a signal of closeChild (HardRestart or Close) is
\* never taken down the crash branch (backoff sleep and startChild).
C6_RequestedExitIsNoCrash ==
    \A g \in Gids : gpc[g] \in {"sleep", "load", "store"} => cause[g] # "signal"

\* C7: the wait after the k-th unexpected exit in a row (k from 0, counted
\* from the last explicit start or restart) is min(initial * 2^k, max).
C7_BackoffDoubles ==
    lastWait # 0 => lastWait = Min(initialBackoff * Pow2(lastK), maxBackoff)

\* A backoff sleep of the capped length: 50 * 2^k has passed 5 s.
C7_Witness == lastWait = maxBackoff /\ initialBackoff * Pow2(lastK) > maxBackoff

\* C8: the first unexpected exit after a HardRestart has returned waits initial.
C8_HardRestartResets ==
    (lastWait # 0 /\ lastAfterHR) => lastWait = initialBackoff

\* C9: once the cumulative backoff exceeds the ceiling the handler restarts
\* nothing.
C9_GivesUpAfterCeiling ==
    \A g \in Gids : gpc[g] \in {"load", "store"} => elapsed <= MaxElapsedTime


C2_IgnoredTermIsKilled ==
    \A s \in Stoppers :
        (stpc[s] = "sendKill") ~> ~(running /\ sproc[s] = cur)

\* C3: a Stop call that found the state Started returns.
C3_StopReturns ==
    \A s \in Stoppers :
        (stpc[s] \in {"set", "sendTerm", "select", "sendKill"}) ~> (stpc[s] = "idle")

\* C5: the Start call blocked on a child that has exited on its own returns,
\* also when no Stop was called and the context is not cancelled.
C5_StartReturnsOnExit ==
    (dpc = "select" /\ ~running /\ stopsLeft = MaxStops /\ ~ctxDone) ~> (dpc # "select")

\* C10: with no Stop called, a Start call of backoff.Retry made when nothing
\* stands in the way of a spawn does not fail with "process is already running".
C10_RetrySpawns ==
    (stopsLeft = MaxStops /\ lastErr = "running") => ~lastEnvOk

\* C11: a Stop call on the childProcess whose child runs and does not ignore
\* SIGTERM returns, and the Start call has returned nil with the state back
\* at Stopped (unless the context was cancelled, or the child had ended by
\* itself before the signal and Start returned the error of the signal).
C11_StopThenBothReturn ==
    \A s \in Stoppers : \A p \in Procs :
        (stpc[s] = "sendTerm" /\ sproc[s] = p /\ cur = p /\ running /\ ~ignoresTerm)
            ~> \/ stpc[s] = "idle" /\ state[p] = "Stopped"
               \/ ctxDone
               \/ state[p] = "Stopping" /\ dpc \notin {"select", "waitExit"}

\* C12: every change of the state of a childProcess is one of
\* Stopped->Starting, Starting->Started, Started->Stopping, Stopping->Stopped.
C12_OnlyTheFourEdges ==
    [][\A p \in Procs :
          state'[p] # state[p] =>
              <<state[p], state'[p]>> \in {<<"Stopped", "Starting">>, <<"Starting", "Started">>,
                                          <<"Started", "Stopping">>, <<"Stopping", "Stopped">>}]_vars

\* C13: a Start call made while the state is not Stopped returns an error
\* and runs no prestart task, spawns nothing, emits no notification and
\* leaves the state as it is.
C13_StartOnlyFromStopped ==
    [][(dpc = "call" /\ dpc' # "call" /\ state[cur] # "Stopped") =>
          /\ dpc' = "backoff"
          /\ lastErr' = "running"
          /\ state' = state
          /\ prestartRuns' = prestartRuns
          /\ startups' = startups
          /\ shutdowns' = shutdowns
          /\ running' = running
          /\ epc' = epc]_vars

\* A Start call was made in the state Starting and has returned its error.
C13_Witness == lastErr = "running" /\ dpc = "backoff" /\ state[cur] = "Starting"

\* C14: a Stop call that finds a state other than Started returns the error
\* "process is not running", sends neither the terminate nor the kill
\* request, and leaves the state as it is.
C14_StopOnlyFromStarted ==
    [][\A s \in Stoppers :
          (stpc[s] = "lock" /\ stpc'[s] # "lock" /\ state[sproc[s]] # "Started") =>
              /\ stpc'[s] = "idle"
              /\ stopErr'[s] = "notRunning"
              /\ state' = state
              /\ gotTerm' = gotTerm
              /\ running' = running
              /\ dpc' = dpc]_vars

\* A Stop call has returned "process is not running" from the state Stopping.
C14_Witness ==
    \E s \in Stoppers : \E p \in Procs :
        stopErr[s] = "notRunning" /\ stpc[s] = "idle" /\ state[p] = "Stopping"

\* C15: a HardRestart call made while the supervisor is starting a child
\* returns nil at once: it sends no signal, spawns nothing, and leaves the
\* run wait-groups, the backoff and the expecting-shutdown flag as they are.
C15_HardRestartWhileStartingIsNoOp ==
    [][(hardLeft' < hardLeft /\ isStarting) =>
          /\ hrDropped'
          /\ UNCHANGED <<childCmd, childInnerRunWait, childOuterRunWait, isStarting,
                         isExpectingShutdown, backoff, childCmdClosed, gpc, startPc, cpc,
                         cop, ccmd, procSet, alive, termed, cause, panicked>>]_vars

\* A HardRestart call was dropped while a child process was running.
C15_Witness == hrDropped /\ isStarting /\ alive # {}

\* C16: the wait of a HardRestart for its child to terminate ends on the
\* confirmation that the child closed, with no kill timeout elapsing, when
\* the child exits on the graceful signal.  (Stated for a HardRestart that is
\* the first thing to happen to the supervisor after Start.)
C16_HardRestartWaitEndsOnExit ==
    \A c \in Callers :
        (/\ cpc[c] = "select" /\ cop[c] = "hard" /\ ~ignoresTerm
         /\ eventsLeft = MaxEvents - 1)
            ~> (cpc[c] # "select" \/ panicked)

\* C17: once the graceful termination of a Stop has timed out, the forceful
\* kill reaches the whole process group of the child: the child and every
\* descendant end.  (Stated for a child with a descendant, both alive at the
\* timeout, and a cancelled context, the one way the supervisor has to kill.)
C17_KillReachesTheGroup ==
    \A s \in Stoppers :
        (stpc[s] = "sendKill" /\ sproc[s] = cur /\ running /\ desc /\ ctxDone)
            ~> (~running /\ ~desc)

\* C18: the prestart tasks run in order before the spawn.  When one fails the
\* later ones do not run, no child is spawned, no Startup notification is
\* emitted, Start returns an error and the state is still Stopped; the spawn
\* is reached only after every prestart task has run.
C18_PrestartFailureStopsStart ==
    [][(dpc = "call" /\ dpc' # "call" /\ state[cur] = "Stopped") =>
          IF prestartOk
            THEN /\ prestartRuns' = prestartRuns + NumPrestart
                 /\ dpc' = "spawn"
                 /\ running' = running
            ELSE /\ prestartRuns' = prestartRuns + badTask
                 /\ dpc' = "backoff"
                 /\ lastErr' = "prestart"
                 /\ state'[cur] = "Stopped"
                 /\ startups' = startups
                 /\ running' = running
                 /\ epc' = epc]_vars

\* The first prestart task failed, the second did not run, Start returned the
\* error.
C18_Witness ==
    /\ lastErr = "prestart"
    /\ dpc = "backoff"
    /\ badTask < NumPrestart
    /\ prestartRuns = badTask
    /\ state[cur] = "Stopped"
    /\ startups = 0

\* The fields of the supervisor of process.go and its child.
SupervisorState ==
    <<childCmd, childInnerRunWait, childOuterRunWait, isStarting, isExpectingShutdown,
      backoff, childCmdClosed, gpc, startPc, procSet, alive, termed, ipcServer>>

SoftOnly(f) ==
    /\ \E g \in softReload : Match(g, f)
    /\ ~\E g \in hardReload : Match(g, f)
    /\ ~\E e \in excludePaths : HasPrefix(Rel(rootDirectory, f), e)

\* C20: the change of a file that matches a soft-reload glob and no earlier
\* rule calls SoftRestart with the path relative to the root; when the
\* supervisor is not starting and the IPC channel is connected, SoftRestart
\* writes exactly one reload message with that path as its payload and
\* returns in that step, without a wait for the acknowledgement.
C20_SoftReloadSendsOneMessage ==
    [][/\ (changesLeft' < changesLeft /\ SoftOnly(lastFile')) =>
             /\ spc' = "load"
             /\ spath' = Rel(rootDirectory, lastFile')
       /\ (spc = "load" /\ ~isStarting /\ (spc' # spc \/ panicked' # panicked)) =>
             /\ spc' = "write"
             /\ spath' = spath
       /\ (spc = "write" /\ ipcServer = "connected" /\ (spc' # spc \/ panicked' # panicked)) =>
             /\ ipcOut' = Append(ipcOut, [type |-> "reload", data |-> spath])
             /\ spath = Rel(rootDirectory, lastFile)
             /\ spc' = "idle"
             /\ softRet' = "sent"
             /\ ~panicked']_vars

\* views/page.html changed and one reload message with that path was written.
C20_Witness ==
    /\ softRet = "sent"
    /\ spc = "idle"
    /\ lastFile = <<"proj", "/", "views", "/", "page", ".html">>
    /\ ipcOut = <<[type |-> "reload", data |-> <<"views", "/", "page", ".html">>]>>

\* C21: the SoftRestart notification is passed to the sinks only by the step
\* in which the reader handles a "reloaded" message it has read from the
\* child, every such step passes exactly one, and the step of SoftRestart
\* that writes the reload request passes none.
C21_NotifiedOncePerAck ==
    [][ /\ softDone' # softDone =>
             rmsg = "reloaded" /\ rmsg' = "none" /\ softDone' = softDone + 1
        /\ (rmsg = "reloaded" /\ rmsg' # rmsg) => softDone' = softDone + 1
        /\ (spc = "write" /\ spc' = "idle") => softDone' = softDone ]_vars

\* a reload request was written, and an acknowledgement was read and notified
C21_Witness ==
    /\ softDone = 1
    /\ \E i \in 1..Len(ipcOut) : ipcOut[i].type = "reload"
    /\ rmsg = "none"

\* C22: one supervisor opens a single IPC endpoint, before its first spawn,
\* and every child it spawns is given the identity of that endpoint.
C22_SingleEndpoint ==
    /\ nChannels <= 1
    /\ Cardinality(EnvChannels) <= 1

\* C23: every stdout/stderr notification about output of the running child,
\* and every IPC connection notification made while the child runs, carries
\* the ChildProccessID that the Start call of that run minted.
C23_NotificationsCarryTheRunId ==
    [][ /\ outsLeft' # outsLeft => outId' = "this"
        /\ (nConnected' # nConnected /\ running) => ipcNoteId' = "this" ]_vars

\* The file matches a hard-reload glob and the glob of a generated file, and
\* the exclusion rule does not drop it.
HardAndGenerated ==
    /\ \E g \in cw.hardReload : Match(g, cfile)
    /\ \E e \in cw.generated : Match(e.patt, cfile)
    /\ ~\E e \in cw.excludePaths : HasPrefix(Rel(rootDirectory, cfile), e)

\* C24: for a file that matches both a hard-reload glob and a generated-file
\* glob and is not excluded, every classification issues the hard-restart
\* request for the file and nothing else: none of the tasks of the generated
\* file is requested.
C24_HardBeforeGenerated ==
    HardAndGenerated =>
        \A k \in 1..Len(results) :
            results[k].reqs = <<HardRequest(Rel(rootDirectory, cfile))>>

\* main.go, with tasks bound to "main*", was classified
C24_Witness ==
    /\ HardAndGenerated
    /\ results # <<>>
    /\ issued # <<>>

\* C25: every classification has the outcome of the first category the file
\* matches, in the order excluded, hard-reload glob, soft-reload glob,
\* generated-file glob (the requests of the tasks of a glob that matches),
\* env-file name (a hard restart), unhandled (no request).
C25_FirstCategoryWins ==
    \A k \in 1..Len(results) :
        LET r    == results[k]
            rel  == Rel(rootDirectory, cfile)
            gens == {e \in cw.generated : Match(e.patt, cfile)}
        IN  IF \E e \in cw.excludePaths : HasPrefix(rel, e)
              THEN r.ignored /\ r.reqs = <<>>
            ELSE /\ ~r.ignored
                 /\ IF \E g \in cw.hardReload : Match(g, cfile)
                      THEN r.reqs = <<HardRequest(rel)>>
                    ELSE IF \E g \in cw.softReload : Match(g, cfile)
                      THEN r.reqs = <<[type |-> "soft", msg |-> rel]>>
                    ELSE IF gens # {}
                      THEN \E e \in gens :
                             r.reqs = [i \in 1..Len(e.tasks) |-> TaskRequest(e.tasks[i], rel)]
                    ELSE IF Base(cfile) \in cw.envFiles
                      THEN r.reqs = <<HardRequest(rel)>>
                    ELSE r.reqs = <<>>

\* C26: a classification drops the file as excluded if and only if the file
\* lies inside one of the excluded directories, taken relative to the root.
C26_IgnoredIffInExcludedDirectory ==
    \A k \in 1..Len(results) :
        results[k].ignored <=>
            \E e \in cw.excludePaths : HasPrefix(Rel(rootDirectory, cfile), e \o <<"/">>)

\* C27: two classifications of the same file under the same rules produce
\* the same outcome: the same requests, with the same tasks, in the same order.
C27_ClassifierIsAFunction ==
    \A j, k \in 1..Len(results) : results[j] = results[k]

\* The requests of the classifications made so far, one after the other
RECURSIVE RequestsOf(_)
RequestsOf(rs) ==
    IF rs = <<>> THEN <<>> ELSE rs[1].reqs \o RequestsOf(Tail(rs))

\* The request a task list entry stands for
EntryRequest(t, rel) ==
    CASE t = <<"__hard_reload">> -> [type |-> "hard", msg |-> rel]
      [] t = <<"__soft_reload">> -> [type |-> "soft", msg |-> rel]
      [] OTHER                   -> [type |-> "oob", msg |-> t]

\* C28: the requests of a generated-file match are those of its task list,
\* entry by entry and in list order (a reload entry a restart request, any
\* other entry an out-of-band task); they reach the restart loop in that
\* order, and the loop has acted on a request only when every request issued
\* before it is done: a reload follows the end of the tasks listed before it.
C28_TasksInListOrderReloadAfterTasks ==
    /\ \A k \in 1..Len(results) :
          Len(results[k].reqs) > 1 =>
              \E e \in cw.generated :
                  /\ Match(e.patt, cfile)
                  /\ results[k].reqs =
                        [i \in 1..Len(e.tasks) |->
                            EntryRequest(e.tasks[i], Rel(rootDirectory, cfile))]
    /\ issued \o wtodo = RequestsOf(results)
    /\ Len(acted) <= Len(issued)
    /\ acted = SubSeq(issued, 1, Len(acted))

\* A task of a generated file has ended and the reload listed after it was
\* acted on
C28_Witness ==
    /\ Len(acted) >= 2
    /\ acted[1].type = "oob"
    /\ acted[2].type \in {"hard", "soft"}
    /\ \E e \in cw.generated : Match(e.patt, cfile)

\* What a sink got from one producer, in the order it got it
FromProducer(i, p) ==
    LET IsFrom(n) == n[1] = p IN SelectSeq(got[i], IsFrom)

C30_SlowSinkHoldsBackNobody ==
    \A p \in Producers :
        inNotify[p] =>
            \A i \in 1..Len(Sinks) :
                i # sinkAt[p] => Len(FromProducer(i, p)) = emitted[p]

\* C31: a listener that stays registered while a broadcast is under way, other
\* listeners being added or removed meanwhile, receives the event of the
\* broadcast once: never twice, and once when the broadcast is over.
C31_StableListenerGetsTheEventOnce ==
    \A l \in stable :
        /\ recv[l] <= 1
        /\ (bpc = "idle" /\ casts > 0) => recv[l] = 1

\* The types of the notifications of the run, in order
NoteTypes == [k \in 1..Len(onotes) |-> onotes[k].type]

\* C32: the OOBTaskStartup notification of a task comes first, before the
\* command is started; the notifications of its output are passed only when
\* the command has exited, stdout before stderr, one for each buffer that holds
\* output, after a failure as after a success; Run returns an error exactly
\* when the command did not start or exited without success.
C32_StartupFirstOutputAfterExit ==
    /\ oruns > 0 =>
          /\ onotes # <<>>
          /\ onotes[1] = [type |-> "OOBTaskStartup", task |-> "notStarted"]
    /\ \A k \in 2..Len(onotes) :
          /\ onotes[k].type \in {"OOBTaskStdOut", "OOBTaskStdErr"}
          /\ onotes[k].task = "exited"
    /\ (opc = "idle" /\ oruns > 0) =>
          /\ oret = "error" <=> (otask = "failedToStart" \/ oexit = "fail")
          /\ oret = "nil" <=> (otask = "exited" /\ oexit = "ok")
          /\ NoteTypes = <<"OOBTaskStartup">>
                            \o (IF obuf.stdout THEN <<"OOBTaskStdOut">> ELSE <<>>)
                            \o (IF obuf.stderr THEN <<"OOBTaskStdErr">> ELSE <<>>)

\* A task that exited without success and wrote to both streams has returned
C32_Witness ==
    /\ opc = "idle"
    /\ oret = "error"
    /\ oexit = "fail"
    /\ Len(onotes) = 3

\* Close() was called and has returned, and HardRestart was never called
CloseReturned ==
    /\ closeLeft < MaxCloses
    /\ \A c \in Callers : cop[c] # "close"
    /\ hardLeft = MaxHardRestarts

\* C33: once Close() has returned no child is spawned any more, whatever the
\* supervisor was doing when Close() was called.
C33_NoSpawnAfterClose ==
    [][CloseReturned => procSet' \subseteq procSet]_vars

\* C34: a childProcess on which no Start() call is under way (its child lock
\* is not held by Start) is in the state Stopped.
C34_StoppedOutsideStart ==
    \A p \in Procs : childLock[p] # "start" => state[p] = "Stopped"

\* C35: the supervisor does not stay in Starting: whenever isStarting is set,
\* it is cleared later on, after a start attempt that failed as after one that
\* spawned the child.
C35_StartingIsTransient ==
    isStarting ~> ~isStarting

\* Close() was called, found a child and has returned, no start step ever
\* failed, every child that was spawned has exited and its goroutine has
\* ended, and no call is under way
ClosedAndChildGone ==
    /\ closeLeft < MaxCloses
    /\ isExpectingShutdown
    /\ failsLeft = MaxStartFailures
    /\ ~panicked
    /\ procSet # {}
    /\ alive = {}
    /\ \A g \in Gids : gpc[g] \in {"none", "done"}
    /\ \A c \in Callers : cpc[c] = "idle"

\* C36: once Close() has been called and the child has exited, the Start()
\* call that waits for the end of the run returns, whatever HardRestart calls
\* and unexpected exits came before Close().
C36_StartReturnsAfterClose ==
    ClosedAndChildGone ~> startPc = "returned"

\* C37: when the child of a Started childProcess, one that exits on SIGTERM,
\* has got the SIGTERM of a hard restart request (a Stop() that found the
\* state Started), a new child is spawned later on and announced by a Startup
\* notification that carries the ID minted for it.
C37_HardRestartSpawnsANewChild ==
    \A n \in 0..MaxProcs :
        ((\E s \in Stoppers : stpc[s] \in {"select", "sendKill"} /\ sproc[s] = cur)
            /\ gotTerm /\ running /\ ~ignoresTerm /\ startups = n)
        ~> (startups > n /\ currentChildProcessID = "this" /\ nChildProcessID = "this")

\* After a hard restart the second child runs and was announced
C37_Witness ==
    /\ stopsLeft = 0
    /\ shutdowns = 1
    /\ startups = 2
    /\ cur = 2
    /\ running
    /\ currentChildProcessID = "this"

\* C38: whatever the interleaving of the Start calls and the Stop calls on one
\* childProcess, at most one child it spawned is alive at any time, and while
\* a child is alive the Start call that spawned it holds the child lock.
C38_OneChildAliveUnderTheLock ==
    /\ Cardinality(kalive) <= 1
    /\ kalive # {} => (klock \in Starters /\ achild[klock] \in kalive)

\* A child runs while the other caller of Start waits for the child lock and
\* a Stop was called
C38_Witness ==
    \E c1, c2 \in Starters :
        /\ c1 # c2
        /\ apc[c1] = "select"
        /\ achild[c1] \in kalive
        /\ apc[c2] = "lock"
        /\ kstops > 0
        /\ nkids = 2

\* The Stop calls that are past the state check of the one Started run
StopsPastCheck == {s \in StopCallers : kspc[s] \in {"set", "sendTerm", "select", "sendKill"}}

\* C39: of the Stop calls on one Started childProcess at most one goes on to
\* send the terminate request; a call that returned "process is not running"
\* started nothing, and only the call that sent returns nil.
C39_OneStopIssuesTerminate ==
    /\ kissued <= 1
    /\ Cardinality(StopsPastCheck) <= 1
    /\ Cardinality({s \in StopCallers : ksres[s] = "nil"}) <= 1
    /\ \A s \in StopCallers : ksres[s] = "nil" => kissued = 1
    /\ \A s \in StopCallers : ksres[s] = "notRunning" => (ksgo[s] = "none" /\ kcloseLock # s)

\* Two Stop calls on the child that ran: one sent the terminate request and
\* returned nil, the other returned "process is not running"
C39_Witness ==
    \E s1, s2 \in StopCallers :
        /\ ksres[s1] = "nil"
        /\ ksres[s2] = "notRunning"
        /\ kissued = 1
        /\ nkids = 1
        /\ kstops = 2

\* C40: whatever the interleaving of Notify and Close on a sink with an event
\* channel, no Notify call sends on the closed channel: each call delivers its
\* notification or drops it.
C40_NotifyNeverSendsOnClosed ==
    \A n \in Notifiers : skN[n] # "panicked"

====
